---- MODULE Spec2Model ----
(***************************************************************************)
(* State-machine model of the room backend: presence and the capacity      *)
(* gate, guest-number assignment, the download lock, burn destruction and  *)
(* the room destruction countdown.                                         *)
(*                                                                         *)
(* One room is modelled (every table is keyed by room_id and no handler    *)
(* reads across rooms).  Every `await` on the metadata store or the object *)
(* store is one step of a handler, so handlers interleave exactly where    *)
(* the event loop lets them.                                               *)
(***************************************************************************)
EXTENDS Integers, FiniteSets, Sequences, Bags, TLC

\* ------------------------------------------------------------------ bounds
MaxDevices == 2      \* guest devices d1..dn
MaxJoinSlots == 2    \* join / heartbeat handlers in flight at once
SmallCapacity == 1   \* the limited capacity a room may be created with
MaxFiles == 2        \* files uploaded to the room
MaxDownloadSlots == 1 \* download-route handlers in flight at once
MaxBurnTimers == 2   \* pending 3 s burn timers; also pending 30 s countdowns
MaxDownloadCount == 2 \* /download/end is not issued for a file counted this often
MaxFileSize == 2     \* fileSize of an upload, in units of bytes
SmallMaxFiles == 1   \* max_files of the room uploads are checked in
SmallMaxBytes == 2   \* max_total_size_bytes of that room
MaxAuthorSlots == 2  \* upload / delete handlers and reaper runs in flight at once
MaxEndSlots == 2     \* /download/end handlers in flight at once where only /end runs
MaxRooms == 3        \* rooms POST /api/rooms is asked to create
MaxCreateSlots == 2  \* POST /api/rooms handlers in flight at once
MaxIPs == 2          \* client IPs invites come from
MaxRecipients == 1   \* recipient addresses invites go to
MaxInviteSlots == 2  \* POST /api/invite handlers in flight at once
MaxElapses == 1      \* invite windows that run out

UNLIMITED == 999     \* room-access.js: `room.max_concurrent_users || 999`
overloadCheckIntervalMs == 3     \* server.js: 3000 ms, kept in seconds
overloadRetryAfterSeconds == 15  \* server.js

\* room_secrets.author_token of the room, as POST /api/rooms stored it.
author_token == "author"
NULL == 0            \* room-access.js: `let guestNumber = null` (numbers start at 1)
Devices == 1..MaxDevices
Capacities == {SmallCapacity, UNLIMITED}
Files == 1..MaxFiles
LogKeys == {"room_access", "file_download"} \X Devices   \* (event_type, device_id)

\* ------------------------------------------------------------------- state
VARIABLES
    roomRow,              \* the rooms row exists
    max_concurrent_users, \* rooms.max_concurrent_users (written at creation only)
    room_presence,        \* set of device ids with a room_presence row
    room_user_index,      \* device -> user_number, 0 = no row
    room_user_counter,    \* room_user_counter.last_number, 0 = no row
    access_logs,          \* (event, device) -> number of access_logs rows
    recentLogs,           \* in-memory dedup map: the keys recorded less than 3 s ago
    jreq,                 \* bag of the join / heartbeat handlers in flight
    mode,                 \* rooms.mode: "burn" | "normal" (written at creation only)
    file_triggers,        \* the after_file_insert / after_file_delete triggers are installed
    status,               \* rooms.status
    remaining_files,      \* rooms.remaining_files
    download_in_progress, \* rooms.download_in_progress
    files,                \* file id -> files row and its blob
    dreq,                 \* bag of the download-route handlers in flight
    burnTimers,           \* bag of the burn-destruction callbacks scheduled by /download/end
    countdowns,           \* bag of the room destruction countdown callbacks
    downloading,          \* devices that called /download/start and not yet /download/end
    burnsScheduled,       \* file id -> burn destructions scheduled for it so far
    burnDecrements,       \* file id -> times a burn destruction lowered remaining_files for it
    max_files,            \* rooms.max_files (written at creation only)
    max_total_size_bytes, \* rooms.max_total_size_bytes (written at creation only)
    uploads,              \* file id -> state of its multipart upload in the object store
    areq,                 \* bag of the upload / delete handlers and reaper runs in flight
    stale_presence,       \* devices whose last_seen_at is older than ACTIVE_WINDOW_MS
    is_permanent,         \* rooms.is_permanent (written at creation only)
    expired,              \* rooms.expires_at is in the past
    old_uploads,          \* file ids whose multipart upload was initiated more than 24 h ago
    rooms,                \* ids of the rooms rows POST /api/rooms has inserted (and not deleted)
    room_secrets,         \* ids of the room_secrets rows it has inserted
    creq,                 \* POST /api/rooms handlers in flight (bag)
    responses,            \* room id -> status POST /api/rooms answered, 0 before
    ipRateLimit,          \* invite.js Map: client IP -> { count, resetTime, lastAttempt }
    roomInviteCount,      \* invite.js Map entry of the room: { count, resetTime }
    recipientRateLimit,   \* invite.js Map: recipient address -> { count, resetTime }
    ipRoomRateLimit,      \* invite.js Map: `${ip}:${roomId}` of the room -> { count, resetTime }
    ireq,                 \* POST /api/invite handlers in flight (bag)
    mailed,               \* recipient -> mails handed to the mailer in its current window
    windowsElapsed,       \* number of invite windows that have run out so far
    lastOverloadSample,   \* server.js: { overloaded, reasons } of the latest sample
    lastOverloadSampleAge, \* seconds since lastOverloadSampleAt, capped at the check interval
    metrics,              \* the health metrics that are beyond their ceiling right now
    lastRequest,          \* the last request the overload guard saw and what it did with it
    rooms_author_token    \* rooms.author_token as delete-room and delete-file select it

guestVars == <<roomRow, max_concurrent_users, room_presence, room_user_index,
               room_user_counter, access_logs, recentLogs, jreq>>

burnVars == <<mode, file_triggers, status, remaining_files, download_in_progress, files,
              dreq, burnTimers, countdowns, downloading, burnsScheduled, burnDecrements>>

uploadVars == <<max_files, max_total_size_bytes, uploads, areq>>

clockVars == <<stale_presence, is_permanent, expired, old_uploads>>

createVars == <<rooms, room_secrets, creq, responses>>

inviteVars == <<ipRateLimit, roomInviteCount, recipientRateLimit, ipRoomRateLimit, ireq, mailed,
               windowsElapsed>>

overloadVars == <<lastOverloadSample, lastOverloadSampleAge, metrics, lastRequest>>

serverVars == <<rooms_author_token, createVars, inviteVars, overloadVars>>

vars == <<guestVars, burnVars, uploadVars, clockVars, serverVars>>

\* A handler in flight.  pc: the await it is suspended at.  guestNumber: the
\* handler's local of that name (the rpc's data).  selected: what the SELECT
\* of assign_user_number read for this call (0 = no row).
JoinHandler(pc, kind, d) ==
    [pc |-> pc, kind |-> kind, device |-> d, guestNumber |-> NULL, selected |-> 0]

Handlers(bag) == BagToSet(bag)
Replace(bag, h, g) == (bag (-) SetToBag({h})) (+) SetToBag({g})
Remove(bag, h) == bag (-) SetToBag({h})

\* ------------------------------------------------------- presence.js
\* countActiveGuests(roomId, excludeDeviceId): rows of the room whose device
\* is not an author marker and differs from excludeDeviceId.  No filter on
\* last_seen_at or status is applied.
countActiveGuestsMutant(excludeDeviceId) == Cardinality(room_presence)
countActiveGuests(excludeDeviceId) ==
    Cardinality(room_presence \ {excludeDeviceId})

\* The capacity test of enforceCapacityAndUpsertGuest.
GateRejects(maxUsers, guestsExcludingSelf) ==
    maxUsers < UNLIMITED /\ guestsExcludingSelf >= maxUsers

\* ------------------------------------------------------ access-logger.js
\* isDuplicate(key), the test: the key was recorded less than DEDUP_WINDOW_MS ago.
isDuplicateMutant(key) == FALSE
isDuplicate(key) == key \in recentLogs

\* ------------------------------------------------ assign_user_number
\* The number the function hands out after `UPDATE room_user_counter SET
\* last_number = last_number + 1 ... RETURNING last_number`.
NextUserNumberMutant(last_number) == IF last_number = 0 THEN 1 ELSE last_number
NextUserNumber(last_number) == last_number + 1

\* `IF FOUND THEN RETURN v_number` after the SELECT read `selected`.
IndexFoundMutant(selected) == FALSE
IndexFound(selected) == selected # 0

\* ON DELETE CASCADE from rooms to room_presence, room_user_counter and
\* room_user_index: what is left of the guest tables once the room row goes.
CascadeGuestTables ==
    /\ room_presence' = {}
    /\ room_user_index' = [d \in Devices |-> 0]
    /\ room_user_counter' = 0

\* --------------------------------------------------------- room-auth.js
\* authorizeRoomAccess(roomId, authorToken, deviceId): the author when the
\* token equals room_secrets.author_token, else a guest iff a room_presence
\* row (room, device) exists.  Both reads find nothing once the room is gone.
authorizeRoomAccess(authorToken, deviceId) ==
    roomRow /\ (authorToken \/ deviceId \in room_presence)

\* ------------------------------------------------------------ room rows
\* upload.js: a room is created with mode = burnEnabled ? 'burn' : 'normal'
\* and one_time_download = burnEnabled.
one_time_download == mode = "burn"

\* files.burn_after_download: no handler sets it.
burn_after_download(f) == FALSE

\* `file.burn_after_download || file.rooms.mode === 'burn'`, then
\* `isBurnMode || file.rooms.one_time_download`: the file is destroyed after
\* its download.
IsBurnFile(f) == burn_after_download(f) \/ mode = "burn" \/ one_time_download

NoFile == [row |-> FALSE, size |-> 0, download_count |-> 0, file_status |-> "live", blob |-> FALSE]
LiveFile == [row |-> TRUE, size |-> 1, download_count |-> 0, file_status |-> "live", blob |-> TRUE]

Max(a, b) == IF a >= b THEN a ELSE b

\* decrement_room_file_count() and decrement_remaining_files():
\* GREATEST(0, COALESCE(remaining_files, 0) - 1).
Decremented(n) == Max(0, n - 1)

\* The burn destruction's own decrement:
\* Math.max(0, (updatedRoom.remaining_files || 1) - 1).
BurnDecremented(n) == Max(0, (IF n = 0 THEN 1 ELSE n) - 1)

\* remaining_files of a room after k multipart Completes: each inserts a
\* files row (after_file_insert adds 1 when installed) and calls
\* increment_remaining_files.
RemainingAfterUploads(k) == IF file_triggers THEN 2 * k ELSE k

\* The rooms row goes: ON DELETE CASCADE removes the guest tables and the
\* files rows (the blobs stay in the object store).
DeleteRoomRow ==
    /\ roomRow' = FALSE
    /\ CascadeGuestTables
    /\ files' = [f \in Files |-> [NoFile EXCEPT !.blob = files[f].blob]]
    /\ remaining_files' = 0
    /\ download_in_progress' = FALSE

\* What the specifications of the room's routes assume of the rest of the
\* server: the room's rows are as POST /api/rooms and the migration of the
\* secrets left them.
InitProcess ==
    /\ rooms = {}
    /\ room_secrets = {}
    /\ creq = EmptyBag
    /\ responses = [r \in 1..MaxRooms |-> 0]
    /\ ipRateLimit = [ip \in 1..MaxIPs |-> [count |-> 0, live |-> FALSE, recent |-> FALSE]]
    /\ roomInviteCount = [count |-> 0, live |-> FALSE]
    /\ recipientRateLimit = [e \in 1..MaxRecipients |-> [count |-> 0, live |-> FALSE]]
    /\ ipRoomRateLimit = [ip \in 1..MaxIPs |-> [count |-> 0, live |-> FALSE]]
    /\ ireq = EmptyBag
    /\ mailed = [e \in 1..MaxRecipients |-> 0]
    /\ windowsElapsed = 0
    /\ lastOverloadSample = [overloaded |-> FALSE, reasons |-> {}]
    /\ lastOverloadSampleAge = overloadCheckIntervalMs
    /\ metrics = {}
    /\ lastRequest = [path |-> << >>, status |-> 0, retryAfter |-> 0]

InitServer ==
    /\ rooms_author_token = author_token
    /\ InitProcess

\* ------------------------------------------------------------------ Init
\* A fresh room that nobody has joined and that holds no file.
InitGuest ==
    /\ roomRow = TRUE
    /\ max_concurrent_users \in Capacities
    /\ room_presence = {}
    /\ room_user_index = [d \in Devices |-> 0]
    /\ room_user_counter = 0
    /\ access_logs = [k \in LogKeys |-> 0]
    /\ recentLogs = {}
    /\ jreq = EmptyBag
    /\ mode = "normal"
    /\ file_triggers = FALSE
    /\ status = "active"
    /\ remaining_files = 0
    /\ download_in_progress = FALSE
    /\ files = [f \in Files |-> NoFile]
    /\ dreq = EmptyBag
    /\ burnTimers = EmptyBag
    /\ countdowns = EmptyBag
    /\ downloading = {}
    /\ burnsScheduled = [f \in Files |-> 0]
    /\ burnDecrements = [f \in Files |-> 0]
    /\ max_files = MaxFiles
    /\ max_total_size_bytes = MaxFiles * MaxFileSize
    /\ uploads = [f \in Files |-> IF files[f].row THEN "completed" ELSE "none"]
    /\ areq = EmptyBag
    /\ stale_presence = {}
    /\ is_permanent = FALSE
    /\ expired = FALSE
    /\ old_uploads = {}
    /\ InitServer

\* An active room of unlimited capacity in which every device is present,
\* all but the last through a join (guest number and room_access log), the
\* last through heartbeats only, and to which the author has uploaded
\* files 1..k.
InitBurn ==
    /\ roomRow = TRUE
    /\ max_concurrent_users = UNLIMITED
    /\ room_presence = Devices
    /\ room_user_index = [d \in Devices |-> IF d < MaxDevices THEN d ELSE 0]
    /\ room_user_counter = MaxDevices - 1
    /\ access_logs = [k \in LogKeys |->
                        IF k[1] = "room_access" /\ k[2] < MaxDevices THEN 1 ELSE 0]
    /\ recentLogs = {}
    /\ jreq = EmptyBag
    /\ mode \in {"burn", "normal"}
    /\ file_triggers \in BOOLEAN
    /\ status = "active"
    /\ \E k \in 1..MaxFiles :
          /\ files = [f \in Files |-> IF f <= k THEN LiveFile ELSE NoFile]
          /\ remaining_files = RemainingAfterUploads(k)
    /\ download_in_progress = FALSE
    /\ dreq = EmptyBag
    /\ burnTimers = EmptyBag
    /\ countdowns = EmptyBag
    /\ downloading = {}
    /\ burnsScheduled = [f \in Files |-> 0]
    /\ burnDecrements = [f \in Files |-> 0]
    /\ max_files = MaxFiles
    /\ max_total_size_bytes = MaxFiles * MaxFileSize
    /\ uploads = [f \in Files |-> IF files[f].row THEN "completed" ELSE "none"]
    /\ areq = EmptyBag
    /\ stale_presence = {}
    /\ is_permanent = FALSE
    /\ expired = FALSE
    /\ old_uploads = {}
    /\ InitServer

\* POST /api/room-access (kind "join") or POST /api/room-access/presence
\* (kind "presence") up to the end of getRoom, its first await: 404 without
\* a room row, `skipped: author` for the author token, otherwise the gate
\* follows.  (getRoom's second read, room_secrets, is merged into the first:
\* the token is written at creation only.)
JoinGetRoom(kind, d, isAuthor) ==
    /\ BagCardinality(jreq) < MaxJoinSlots
    /\ IF ~roomRow \/ isAuthor
         THEN UNCHANGED jreq
         ELSE jreq' = jreq (+) SetToBag({JoinHandler("count", kind, d)})
    /\ UNCHANGED <<roomRow, max_concurrent_users, room_presence, room_user_index,
                   room_user_counter, access_logs, recentLogs>>
    /\ UNCHANGED <<burnVars, uploadVars, clockVars, serverVars>>

\* enforceCapacityAndUpsertGuest, first await: count and decide.
JoinGateCount(h) ==
    /\ h.pc = "count"
    /\ IF GateRejects(max_concurrent_users, countActiveGuests(h.device))
         THEN jreq' = Remove(jreq, h)                       \* 403 isFull
         ELSE jreq' = Replace(jreq, h, [h EXCEPT !.pc = "upsert"])
    /\ UNCHANGED <<roomRow, max_concurrent_users, room_presence, room_user_index,
                   room_user_counter, access_logs, recentLogs>>
    /\ UNCHANGED <<burnVars, uploadVars, clockVars, serverVars>>

\* enforceCapacityAndUpsertGuest, second await: upsertGuestPresence.  The
\* upsert of a row whose room is gone violates the foreign key and throws
\* (500).  A heartbeat answers 200 here.
JoinGateUpsert(h) ==
    /\ h.pc = "upsert"
    /\ IF ~roomRow
         THEN jreq' = Remove(jreq, h) /\ UNCHANGED <<room_presence, stale_presence>>
         ELSE /\ room_presence' = room_presence \cup {h.device}
              /\ stale_presence' = stale_presence \ {h.device}   \* last_seen_at = now
              /\ jreq' = IF h.kind = "presence"
                           THEN Remove(jreq, h)
                           ELSE Replace(jreq, h, [h EXCEPT !.pc = "assignSelect"])
    /\ UNCHANGED <<roomRow, max_concurrent_users, room_user_index,
                   room_user_counter, access_logs, recentLogs>>
    /\ UNCHANGED <<burnVars, uploadVars, is_permanent, expired, old_uploads, serverVars>>

\* assign_user_number, the SELECT: a READ COMMITTED read of room_user_index.
\* A found row is returned at once.
JoinAssignSelect(h) ==
    /\ h.pc = "assignSelect"
    /\ LET selected == room_user_index[h.device]
       IN jreq' = Replace(jreq, h,
                    IF IndexFound(selected)
                      THEN [h EXCEPT !.pc = "logCheck", !.selected = selected,
                                     !.guestNumber = selected]
                      ELSE [h EXCEPT !.pc = "assignCommit", !.selected = selected])
    /\ UNCHANGED <<roomRow, max_concurrent_users, room_presence, room_user_index,
                   room_user_counter, access_logs, recentLogs>>
    /\ UNCHANGED <<burnVars, uploadVars, clockVars, serverVars>>

\* assign_user_number, the rest of the transaction.  The counter row is
\* locked from the INSERT .. ON CONFLICT / UPDATE until commit, so two calls
\* of one room never overlap here and the three statements are one step.
\* The INSERT into room_user_index fails on the primary key (room_id,
\* device_id) when another call committed the row after this call's SELECT,
\* and on the foreign key when the room is gone; the error rolls the counter
\* back and the rpc yields data = null.
JoinAssignCommit(h) ==
    /\ h.pc = "assignCommit"
    /\ LET d == h.device
           v_number == NextUserNumber(room_user_counter)
       IN IF ~roomRow \/ room_user_index[d] # 0
            THEN /\ jreq' = Replace(jreq, h, [h EXCEPT !.pc = "logCheck", !.guestNumber = NULL])
                 /\ UNCHANGED <<room_user_index, room_user_counter>>
            ELSE /\ room_user_counter' = v_number
                 /\ room_user_index' = [room_user_index EXCEPT ![d] = v_number]
                 /\ jreq' = Replace(jreq, h, [h EXCEPT !.pc = "logCheck", !.guestNumber = v_number])
    /\ UNCHANGED <<roomRow, max_concurrent_users, room_presence, access_logs, recentLogs>>
    /\ UNCHANGED <<burnVars, uploadVars, clockVars, serverVars>>

\* The `existingLog` lookup and, without a row, logAccess up to its first
\* await: isDuplicate() tests and sets the in-memory key.  With a row or a
\* fresh key nothing is inserted and the handler answers
\* { success, guestNumber }.
JoinLogCheck(h) ==
    /\ h.pc = "logCheck"
    /\ IF access_logs[<<"room_access", h.device>>] > 0 \/ isDuplicate(<<"room_access", h.device>>)
         THEN jreq' = Remove(jreq, h) /\ UNCHANGED recentLogs
         ELSE /\ recentLogs' = recentLogs \cup {<<"room_access", h.device>>}
              /\ jreq' = Replace(jreq, h, [h EXCEPT !.pc = "logInsert"])
    /\ UNCHANGED <<roomRow, max_concurrent_users, room_presence, room_user_index,
                   room_user_counter, access_logs>>
    /\ UNCHANGED <<burnVars, uploadVars, clockVars, serverVars>>

\* logAccess: the insert into access_logs (an insert error is swallowed),
\* then the answer { success, guestNumber }.
JoinLogInsert(h) ==
    /\ h.pc = "logInsert"
    /\ access_logs' = [access_logs EXCEPT ![<<"room_access", h.device>>] = @ + 1]
    /\ jreq' = Remove(jreq, h)
    /\ UNCHANGED <<roomRow, max_concurrent_users, room_presence, room_user_index,
                   room_user_counter, recentLogs>>
    /\ UNCHANGED <<burnVars, uploadVars, clockVars, serverVars>>

\* Three seconds pass for a dedup key: isDuplicate() no longer matches it.
DedupWindowElapses(k) ==
    /\ k \in recentLogs
    /\ recentLogs' = recentLogs \ {k}
    /\ UNCHANGED <<roomRow, max_concurrent_users, room_presence, room_user_index,
                   room_user_counter, access_logs, jreq>>
    /\ UNCHANGED <<burnVars, uploadVars, clockVars, serverVars>>

\* The room row is deleted (author delete, countdown or reaper); the guest
\* tables of the room go with it.
RoomRowDeleted ==
    /\ roomRow
    /\ DeleteRoomRow
    /\ UNCHANGED <<max_concurrent_users, access_logs, recentLogs, jreq>>
    /\ UNCHANGED <<mode, file_triggers, status, dreq, burnTimers, countdowns,
                   downloading, burnsScheduled, burnDecrements>>
    /\ UNCHANGED <<uploadVars, clockVars, serverVars>>

NextGuest ==
    \/ \E kind \in {"join", "presence"}, d \in Devices, a \in BOOLEAN :
          JoinGetRoom(kind, d, a)
    \/ \E h \in Handlers(jreq) : JoinGateCount(h)
    \/ \E h \in Handlers(jreq) : JoinGateUpsert(h)
    \/ \E h \in Handlers(jreq) : JoinAssignSelect(h)
    \/ \E h \in Handlers(jreq) : JoinAssignCommit(h)
    \/ \E h \in Handlers(jreq) : JoinLogCheck(h)
    \/ \E h \in Handlers(jreq) : JoinLogInsert(h)
    \/ RoomRowDeleted

\* Joins and heartbeats on one room, all within one dedup window.
SpecGuest == InitGuest /\ [][NextGuest]_vars

\* The same with the dedup window allowed to elapse between log calls.
NextJoinLog == NextGuest \/ \E k \in LogKeys : DedupWindowElapses(k)
SpecJoinLog == InitGuest /\ [][NextJoinLog]_vars

\* ACTIVE_WINDOW_MS pass without a heartbeat of device d: its presence row
\* (which stays) has a last_seen_at older than activeSinceIso().
PresenceWindowElapses(d) ==
    /\ d \in room_presence \ stale_presence
    /\ stale_presence' = stale_presence \cup {d}
    /\ UNCHANGED <<guestVars, burnVars, uploadVars, is_permanent, expired, old_uploads, serverVars>>

\* Time passes: the room's expires_at is now in the past.
RoomExpires ==
    /\ roomRow /\ ~expired
    /\ expired' = TRUE
    /\ UNCHANGED <<guestVars, burnVars, uploadVars, stale_presence, is_permanent, old_uploads, serverVars>>

\* Joins and heartbeats with devices that stop sending heartbeats.
NextWindow == NextGuest \/ \E d \in Devices : PresenceWindowElapses(d)
SpecWindow == InitGuest /\ [][NextWindow]_vars

\* ============================================== download route (start/end)
\* A download-route handler in flight.  count / lock: download_count and
\* download_in_progress as read by the handler's select.  todo: file ids
\* /download/bulk-mark has still to mark.
DlHandler(op, pc, d, f, success) ==
    [op |-> op, pc |-> pc, device |-> d, file |-> f, success |-> success,
     count |-> 0, lock |-> FALSE, todo |-> {}, guestNumber |-> NULL, selected |-> 0]

\* A burn-destruction callback.  read: remaining_files as it selected it.
BurnTimer(f) == [pc |-> "deleteBlob", file |-> f, read |-> 0]

\* What a countdown's select of the room returned: nothing yet or no row
\* (status "none"), or the row's status and download_in_progress.
NoRoomCheck == [status |-> "none", download_in_progress |-> FALSE]

\* A destruction countdown callback.  roomCheck: the room as it selected
\* it; keys: the file rows it listed.
Countdown == [pc |-> "check", roomCheck |-> NoRoomCheck, keys |-> {}]

roomFields == <<status, remaining_files, download_in_progress>>
guestTables == <<max_concurrent_users, room_presence, room_user_index, room_user_counter>>
logVars == <<access_logs, recentLogs>>
ghostVars == <<downloading, burnsScheduled, burnDecrements>>

\* Handlers of /download/end { success: true } that have not yet scheduled
\* their burn timer.
EndsInFlight == {h \in Handlers(dreq) : h.op = "end" /\ h.success}
PendingEnds == IF EndsInFlight = {} THEN 0
               ELSE BagCardinality([h \in EndsInFlight |-> dreq[h]])

\* POST /api/download/start up to the end of authorizeRoomAccess.
DlStartAuthorize(d) ==
    /\ BagCardinality(dreq) < MaxDownloadSlots
    /\ IF authorizeRoomAccess(FALSE, d)
         THEN dreq' = dreq (+) SetToBag({DlHandler("start", "lock", d, 0, FALSE)})
         ELSE UNCHANGED dreq                                      \* 403
    /\ UNCHANGED <<roomRow, guestTables, logVars, jreq, mode, file_triggers, roomFields,
                   files, burnTimers, countdowns, ghostVars>>
    /\ UNCHANGED <<uploadVars, clockVars, serverVars>>

\* /start: `update rooms set download_in_progress = true where id = roomId`
\* (no row, no error once the room is gone), then { success, locked }.
DlStartLock(h) ==
    /\ h.op = "start" /\ h.pc = "lock"
    /\ download_in_progress' = (roomRow \/ download_in_progress)
    /\ downloading' = IF roomRow THEN downloading \cup {h.device} ELSE downloading
    /\ dreq' = Remove(dreq, h)
    /\ UNCHANGED <<roomRow, guestTables, logVars, jreq, mode, file_triggers, status,
                   remaining_files, files, burnTimers, countdowns, burnsScheduled,
                   burnDecrements>>
    /\ UNCHANGED <<uploadVars, clockVars, serverVars>>

\* POST /api/download/end up to the end of authorizeRoomAccess, with at
\* most `slots` download handlers in flight.  authorToken: the request
\* carries the room's author token in x-author-token.
DlEndAdmit(authorToken, d, f, success, slots) ==
    /\ BagCardinality(dreq) < slots
    /\ success => /\ files[f].download_count < MaxDownloadCount
                  /\ BagCardinality(burnTimers) + PendingEnds < MaxBurnTimers
    /\ IF authorizeRoomAccess(authorToken, d)
         THEN dreq' = dreq (+) SetToBag({DlHandler("end", "unlock", d, f, success)})
         ELSE UNCHANGED dreq                                      \* 403
    /\ downloading' = downloading \ {d}
    /\ UNCHANGED <<roomRow, guestTables, logVars, jreq, mode, file_triggers, roomFields,
                   files, burnTimers, countdowns, burnsScheduled, burnDecrements>>
    /\ UNCHANGED <<uploadVars, clockVars, serverVars>>

DlEndAuthorize(d, f, success) == DlEndAdmit(FALSE, d, f, success, MaxDownloadSlots)

\* A successful /end that may arrive while another /end is in flight.
DlEndConcurrent(d, f) == DlEndAdmit(FALSE, d, f, TRUE, MaxEndSlots)

\* A successful /end sent with the author token and a device id.
DlEndAsAuthor(d, f) == DlEndAdmit(TRUE, d, f, TRUE, MaxDownloadSlots)

\* /end: `update rooms set download_in_progress = false where id = roomId`;
\* without success the handler answers here.
DlEndUnlockMutant(h) ==
    /\ h.op = "end" /\ h.pc = "unlock"
    /\ download_in_progress' = FALSE
    /\ dreq' = Replace(dreq, h, [h EXCEPT !.pc = "fileSelect"])
    /\ UNCHANGED <<roomRow, guestTables, logVars, jreq, mode, file_triggers, status,
                   remaining_files, files, burnTimers, countdowns, ghostVars>>
    /\ UNCHANGED <<uploadVars, clockVars, serverVars>>
DlEndUnlock(h) ==
    /\ h.op = "end" /\ h.pc = "unlock"
    /\ download_in_progress' = FALSE
    /\ dreq' = IF h.success THEN Replace(dreq, h, [h EXCEPT !.pc = "fileSelect"])
                            ELSE Remove(dreq, h)
    /\ UNCHANGED <<roomRow, guestTables, logVars, jreq, mode, file_triggers, status,
                   remaining_files, files, burnTimers, countdowns, ghostVars>>
    /\ UNCHANGED <<uploadVars, clockVars, serverVars>>

\* /end: the select of the file with its room; 404 without the row.
DlEndFileSelect(h) ==
    /\ h.op = "end" /\ h.pc = "fileSelect"
    /\ dreq' = IF files[h.file].row /\ roomRow
                 THEN Replace(dreq, h, [h EXCEPT !.pc = "countUpdate",
                                                 !.count = files[h.file].download_count])
                 ELSE Remove(dreq, h)
    /\ UNCHANGED <<roomRow, guestTables, logVars, jreq, mode, file_triggers, roomFields,
                   files, burnTimers, countdowns, ghostVars>>
    /\ UNCHANGED <<uploadVars, clockVars, serverVars>>

\* /end: newDownloadCount = (file.download_count || 0) + 1 written back.
NewDownloadCount(count) == count + 1

DlEndCountUpdate(h) ==
    /\ h.op = "end" /\ h.pc = "countUpdate"
    /\ files' = IF files[h.file].row
                  THEN [files EXCEPT ![h.file].download_count = NewDownloadCount(h.count)]
                  ELSE files
    /\ dreq' = Replace(dreq, h, [h EXCEPT !.pc = "logCheck"])
    /\ UNCHANGED <<roomRow, guestTables, logVars, jreq, mode, file_triggers, roomFields,
                   burnTimers, countdowns, ghostVars>>
    /\ UNCHANGED <<uploadVars, clockVars, serverVars>>

\* /end, after its last await: a burn or one-time file gets its 3 s
\* destruction timer; then { success, locked: false }.
DlEndSchedule(h) ==
    /\ dreq' = Remove(dreq, h)
    /\ IF IsBurnFile(h.file)
         THEN /\ burnTimers' = burnTimers (+) SetToBag({BurnTimer(h.file)})
              /\ burnsScheduled' = [burnsScheduled EXCEPT ![h.file] = @ + 1]
         ELSE UNCHANGED <<burnTimers, burnsScheduled>>

\* logAccess(roomId, 'file_download', ...) up to its first await, reached
\* with the rpc's answer: a key recorded less than 3 s ago ends the call,
\* otherwise the key is recorded and the insert follows.
DlEndLogAccess(h, g) ==
    IF isDuplicate(<<"file_download", h.device>>)
      THEN DlEndSchedule(g) /\ UNCHANGED recentLogs
      ELSE /\ recentLogs' = recentLogs \cup {<<"file_download", h.device>>}
           /\ dreq' = Replace(dreq, h, [g EXCEPT !.pc = "logInsert"])
           /\ UNCHANGED <<burnTimers, burnsScheduled>>

\* /end: the `existingLog` lookup; with a row the log is skipped.
DlEndLogCheck(h) ==
    /\ h.op = "end" /\ h.pc = "logCheck"
    /\ IF access_logs[<<"file_download", h.device>>] > 0
         THEN DlEndSchedule(h)
         ELSE /\ dreq' = Replace(dreq, h, [h EXCEPT !.pc = "assignSelect"])
              /\ UNCHANGED <<burnTimers, burnsScheduled>>
    /\ UNCHANGED <<roomRow, guestTables, logVars, jreq, mode, file_triggers, roomFields,
                   files, countdowns, downloading, burnDecrements>>
    /\ UNCHANGED <<uploadVars, clockVars, serverVars>>

\* /end: assign_user_number, the SELECT (see JoinAssignSelect).
DlEndAssignSelect(h) ==
    /\ h.op = "end" /\ h.pc = "assignSelect"
    /\ LET selected == room_user_index[h.device]
       IN IF IndexFound(selected)
            THEN /\ DlEndLogAccess(h, [h EXCEPT !.selected = selected, !.guestNumber = selected])
            ELSE /\ dreq' = Replace(dreq, h, [h EXCEPT !.pc = "assignCommit",
                                                       !.selected = selected])
                 /\ UNCHANGED <<recentLogs, burnTimers, burnsScheduled>>
    /\ UNCHANGED <<roomRow, guestTables, access_logs, jreq, mode, file_triggers, roomFields,
                   files, countdowns, downloading, burnDecrements>>
    /\ UNCHANGED <<uploadVars, clockVars, serverVars>>

\* /end: assign_user_number, the rest of the transaction (see JoinAssignCommit).
DlEndAssignCommit(h) ==
    /\ h.op = "end" /\ h.pc = "assignCommit"
    /\ LET d == h.device
           v_number == NextUserNumber(room_user_counter)
       IN IF ~roomRow \/ room_user_index[d] # 0
            THEN /\ DlEndLogAccess(h, [h EXCEPT !.guestNumber = NULL])
                 /\ UNCHANGED <<room_user_index, room_user_counter>>
            ELSE /\ room_user_counter' = v_number
                 /\ room_user_index' = [room_user_index EXCEPT ![d] = v_number]
                 /\ DlEndLogAccess(h, [h EXCEPT !.guestNumber = v_number])
    /\ UNCHANGED <<roomRow, max_concurrent_users, room_presence, access_logs, jreq, mode,
                   file_triggers, roomFields, files, countdowns, downloading, burnDecrements>>
    /\ UNCHANGED <<uploadVars, clockVars, serverVars>>

\* /end: logAccess's insert into access_logs, then the burn timer.
DlEndLogInsert(h) ==
    /\ h.op = "end" /\ h.pc = "logInsert"
    /\ access_logs' = [access_logs EXCEPT ![<<"file_download", h.device>>] = @ + 1]
    /\ DlEndSchedule(h)
    /\ UNCHANGED <<roomRow, guestTables, recentLogs, jreq, mode, file_triggers, roomFields,
                   files, countdowns, downloading, burnDecrements>>
    /\ UNCHANGED <<uploadVars, clockVars, serverVars>>

\* ==================================================== download route (GET)
\* GET /api/download up to the end of its select of the file with its room:
\* 404 without the row, 410 for a destroyed room, a destroyed file or an
\* expired room.
DlGetSelect(d, f) ==
    /\ BagCardinality(dreq) < MaxDownloadSlots
    /\ IF /\ files[f].row /\ roomRow
          /\ status # "destroyed" /\ files[f].file_status # "destroyed" /\ ~expired
         THEN dreq' = dreq (+) SetToBag({[DlHandler("get", "authorize", d, f, FALSE)
                                            EXCEPT !.count = files[f].download_count,
                                                   !.lock = download_in_progress]})
         ELSE UNCHANGED dreq
    /\ UNCHANGED <<roomRow, guestTables, logVars, jreq, mode, file_triggers, roomFields,
                   files, burnTimers, countdowns, ghostVars>>
    /\ UNCHANGED <<uploadVars, clockVars, serverVars>>

\* The one-time checks of GET on the row it selected: 410 once
\* download_count > 0, 409 while download_in_progress.
GetRefusesMutant(h) == IsBurnFile(h.file) /\ h.lock
GetRefuses(h) == IsBurnFile(h.file) /\ (h.count > 0 \/ h.lock)

\* GET: authorizeRoomAccess (403), then the one-time checks.
DlGetAuthorize(h) ==
    /\ h.op = "get" /\ h.pc = "authorize"
    /\ dreq' = IF authorizeRoomAccess(FALSE, h.device) /\ ~GetRefuses(h)
                 THEN Replace(dreq, h, [h EXCEPT !.pc = "assignSelect"])
                 ELSE Remove(dreq, h)
    /\ UNCHANGED <<roomRow, guestTables, logVars, jreq, mode, file_triggers, roomFields,
                   files, burnTimers, countdowns, ghostVars>>
    /\ UNCHANGED <<uploadVars, clockVars, serverVars>>

\* GET: assign_user_number, the SELECT; with a row the signed URL is made
\* and the response sent.
DlGetAssignSelect(h) ==
    /\ h.op = "get" /\ h.pc = "assignSelect"
    /\ LET selected == room_user_index[h.device]
       IN dreq' = IF IndexFound(selected)
                    THEN Remove(dreq, h)
                    ELSE Replace(dreq, h, [h EXCEPT !.pc = "assignCommit",
                                                    !.selected = selected])
    /\ UNCHANGED <<roomRow, guestTables, logVars, jreq, mode, file_triggers, roomFields,
                   files, burnTimers, countdowns, ghostVars>>
    /\ UNCHANGED <<uploadVars, clockVars, serverVars>>

\* GET: assign_user_number, the rest of the transaction, then the response.
DlGetAssignCommit(h) ==
    /\ h.op = "get" /\ h.pc = "assignCommit"
    /\ LET d == h.device
           v_number == NextUserNumber(room_user_counter)
       IN IF ~roomRow \/ room_user_index[d] # 0
            THEN UNCHANGED <<room_user_index, room_user_counter>>
            ELSE /\ room_user_counter' = v_number
                 /\ room_user_index' = [room_user_index EXCEPT ![d] = v_number]
    /\ dreq' = Remove(dreq, h)
    /\ UNCHANGED <<roomRow, max_concurrent_users, room_presence, logVars, jreq, mode,
                   file_triggers, roomFields, files, burnTimers, countdowns, ghostVars>>
    /\ UNCHANGED <<uploadVars, clockVars, serverVars>>

\* ============================================== download route (bulk-mark)
\* The file id the loop of /bulk-mark is at.
CurrentFile(h) == CHOOSE f \in h.todo : \A g \in h.todo : f <= g

\* POST /api/download/bulk-mark up to the end of authorizeRoomAccess.
DlBulkAuthorize(d, fileIds) ==
    /\ BagCardinality(dreq) < MaxDownloadSlots
    /\ IF authorizeRoomAccess(FALSE, d)
         THEN dreq' = dreq (+) SetToBag({[DlHandler("bulk", "roomSelect", d, 0, FALSE)
                                            EXCEPT !.todo = fileIds]})
         ELSE UNCHANGED dreq                                      \* 403
    /\ UNCHANGED <<roomRow, guestTables, logVars, jreq, mode, file_triggers, roomFields,
                   files, burnTimers, countdowns, ghostVars>>
    /\ UNCHANGED <<uploadVars, clockVars, serverVars>>

\* bulk-mark: `select mode, status, remaining_files from rooms`; 404
\* without the row.
DlBulkRoomSelect(h) ==
    /\ h.op = "bulk" /\ h.pc = "roomSelect"
    /\ dreq' = IF roomRow THEN Replace(dreq, h, [h EXCEPT !.pc = "mark"])
                          ELSE Remove(dreq, h)
    /\ UNCHANGED <<roomRow, guestTables, logVars, jreq, mode, file_triggers, roomFields,
                   files, burnTimers, countdowns, ghostVars>>
    /\ UNCHANGED <<uploadVars, clockVars, serverVars>>

\* bulk-mark: the handler after one pass of its loop: the next file, or
\* after the last one the final read (burn room) or the response.
BulkLoopNext(h) ==
    LET rest == h.todo \ {CurrentFile(h)}
    IN IF rest # {}
         THEN Replace(dreq, h, [h EXCEPT !.pc = "mark", !.todo = rest, !.count = 0])
       ELSE IF mode = "burn"
              THEN Replace(dreq, h, [h EXCEPT !.pc = "finalRead", !.todo = {}, !.count = 0])
              ELSE Remove(dreq, h)

\* bulk-mark: `update files set download_count = 1 where id = fileId`.
DlBulkMarkFile(h) ==
    /\ h.op = "bulk" /\ h.pc = "mark"
    /\ LET f == CurrentFile(h)
       IN files' = IF files[f].row THEN [files EXCEPT ![f].download_count = 1] ELSE files
    /\ dreq' = IF mode = "burn" THEN Replace(dreq, h, [h EXCEPT !.pc = "decrement"])
                                ELSE BulkLoopNext(h)
    /\ UNCHANGED <<roomRow, guestTables, logVars, jreq, mode, file_triggers, roomFields,
                   burnTimers, countdowns, ghostVars>>
    /\ UNCHANGED <<uploadVars, clockVars, serverVars>>

\* bulk-mark: rpc decrement_remaining_files; an rpc error (ok = FALSE)
\* leads to the fallback.
DlBulkDecrement(h, ok) ==
    /\ h.op = "bulk" /\ h.pc = "decrement"
    /\ IF ok
         THEN /\ remaining_files' = IF roomRow THEN Decremented(remaining_files)
                                               ELSE remaining_files
              /\ dreq' = BulkLoopNext(h)
         ELSE /\ dreq' = Replace(dreq, h, [h EXCEPT !.pc = "fallbackRead"])
              /\ UNCHANGED remaining_files
    /\ UNCHANGED <<roomRow, guestTables, logVars, jreq, mode, file_triggers, status,
                   download_in_progress, files, burnTimers, countdowns, ghostVars>>
    /\ UNCHANGED <<uploadVars, clockVars, serverVars>>

\* bulk-mark fallback: `select remaining_files` (currentRoom).
DlBulkFallbackRead(h) ==
    /\ h.op = "bulk" /\ h.pc = "fallbackRead"
    /\ dreq' = Replace(dreq, h, [h EXCEPT !.pc = "fallbackWrite",
                                          !.count = IF roomRow THEN remaining_files ELSE 0])
    /\ UNCHANGED <<roomRow, guestTables, logVars, jreq, mode, file_triggers, roomFields,
                   files, burnTimers, countdowns, ghostVars>>
    /\ UNCHANGED <<uploadVars, clockVars, serverVars>>

\* bulk-mark fallback: writes
\* Math.max(0, (currentRoom?.remaining_files || 0) - 1).
DlBulkFallbackWrite(h) ==
    /\ h.op = "bulk" /\ h.pc = "fallbackWrite"
    /\ remaining_files' = IF roomRow THEN Decremented(h.count) ELSE remaining_files
    /\ dreq' = BulkLoopNext(h)
    /\ UNCHANGED <<roomRow, guestTables, logVars, jreq, mode, file_triggers, status,
                   download_in_progress, files, burnTimers, countdowns, ghostVars>>
    /\ UNCHANGED <<uploadVars, clockVars, serverVars>>

\* bulk-mark: the final `select remaining_files` (updatedRoom); 0 leads
\* to the terminating update, anything else to the response.
DlBulkFinalRead(h) ==
    /\ h.op = "bulk" /\ h.pc = "finalRead"
    /\ dreq' = IF roomRow /\ remaining_files = 0
                 THEN Replace(dreq, h, [h EXCEPT !.pc = "setTerminating"])
                 ELSE Remove(dreq, h)
    /\ UNCHANGED <<roomRow, guestTables, logVars, jreq, mode, file_triggers, roomFields,
                   files, burnTimers, countdowns, ghostVars>>
    /\ UNCHANGED <<uploadVars, clockVars, serverVars>>

\* bulk-mark: `update rooms set status = 'terminating', ...`; no countdown
\* is scheduled here.
DlBulkSetTerminating(h) ==
    /\ h.op = "bulk" /\ h.pc = "setTerminating"
    /\ status' = IF roomRow THEN "terminating" ELSE status
    /\ dreq' = Remove(dreq, h)
    /\ UNCHANGED <<roomRow, guestTables, logVars, jreq, mode, file_triggers,
                   remaining_files, download_in_progress, files, burnTimers, countdowns,
                   ghostVars>>
    /\ UNCHANGED <<uploadVars, clockVars, serverVars>>

\* ============================================ burn destruction (3 s timer)
BurnStep(t, pc) == burnTimers' = Replace(burnTimers, t, [t EXCEPT !.pc = pc])

\* DeleteObjectCommand for the file's blob.  A send that throws (ok false)
\* lands in the catch around the whole callback, which logs the error: the
\* callback ends there.
BurnDeleteBlob(t, ok) ==
    /\ t.pc = "deleteBlob"
    /\ files' = IF ok THEN [files EXCEPT ![t.file].blob = FALSE] ELSE files
    /\ burnTimers' = IF ok
                       THEN Replace(burnTimers, t, [t EXCEPT !.pc = "markDestroyed"])
                       ELSE Remove(burnTimers, t)
    /\ UNCHANGED <<roomRow, guestTables, logVars, jreq, mode, file_triggers, roomFields,
                   dreq, countdowns, ghostVars>>
    /\ UNCHANGED <<uploadVars, clockVars, serverVars>>

\* `update files set file_status = 'destroyed' where id = file.id`.
BurnMarkDestroyed(t) ==
    /\ t.pc = "markDestroyed"
    /\ files' = IF files[t.file].row
                  THEN [files EXCEPT ![t.file].file_status = "destroyed"]
                  ELSE files
    /\ BurnStep(t, "deleteRow")
    /\ UNCHANGED <<roomRow, guestTables, logVars, jreq, mode, file_triggers, roomFields,
                   dreq, countdowns, ghostVars>>
    /\ UNCHANGED <<uploadVars, clockVars, serverVars>>

\* `delete from files where id = file.id`; after_file_delete fires for a row
\* that was there.  Only a burn room goes on to the remaining_files update.
BurnDeleteRow(t) ==
    /\ t.pc = "deleteRow"
    /\ files' = [files EXCEPT ![t.file] = [NoFile EXCEPT !.blob = files[t.file].blob]]
    /\ remaining_files' = IF files[t.file].row /\ file_triggers /\ roomRow
                            THEN Decremented(remaining_files)
                            ELSE remaining_files
    /\ burnTimers' = IF mode = "burn"
                       THEN Replace(burnTimers, t, [t EXCEPT !.pc = "readRemaining"])
                       ELSE Remove(burnTimers, t)
    /\ UNCHANGED <<roomRow, guestTables, logVars, jreq, mode, file_triggers, status,
                   download_in_progress, dreq, countdowns, ghostVars>>
    /\ UNCHANGED <<uploadVars, clockVars, serverVars>>

\* `select remaining_files from rooms where id = ...` (updatedRoom).
BurnReadRemaining(t) ==
    /\ t.pc = "readRemaining"
    /\ burnTimers' = IF roomRow
                       THEN Replace(burnTimers, t, [t EXCEPT !.pc = "writeRemaining",
                                                             !.read = remaining_files])
                       ELSE Remove(burnTimers, t)
    /\ UNCHANGED <<roomRow, guestTables, logVars, jreq, mode, file_triggers, roomFields,
                   files, dreq, countdowns, ghostVars>>
    /\ UNCHANGED <<uploadVars, clockVars, serverVars>>

\* `update rooms set remaining_files = newRemainingFiles ... select single`
\* (updateResult); a result of 0 leads to the terminating update.
BurnWriteRemaining(t) ==
    /\ t.pc = "writeRemaining"
    /\ LET newRemainingFiles == BurnDecremented(t.read)
       IN IF roomRow
            THEN /\ remaining_files' = newRemainingFiles
                 /\ burnDecrements' = [burnDecrements EXCEPT ![t.file] = @ + 1]
                 /\ burnTimers' = IF newRemainingFiles = 0
                                    THEN Replace(burnTimers, t, [t EXCEPT !.pc = "setTerminating"])
                                    ELSE Remove(burnTimers, t)
            ELSE /\ burnTimers' = Remove(burnTimers, t)
                 /\ UNCHANGED <<remaining_files, burnDecrements>>
    /\ UNCHANGED <<roomRow, guestTables, logVars, jreq, mode, file_triggers, status,
                   download_in_progress, files, dreq, countdowns, downloading, burnsScheduled>>
    /\ UNCHANGED <<uploadVars, clockVars, serverVars>>

\* `update rooms set status = 'terminating', termination_started_at = now`,
\* then the 30 s countdown is scheduled.
BurnSetTerminating(t) ==
    /\ t.pc = "setTerminating"
    /\ BagCardinality(countdowns) < MaxBurnTimers
    /\ status' = IF roomRow THEN "terminating" ELSE status
    /\ burnTimers' = Remove(burnTimers, t)
    /\ countdowns' = countdowns (+) SetToBag({Countdown})
    /\ UNCHANGED <<roomRow, guestTables, logVars, jreq, mode, file_triggers,
                   remaining_files, download_in_progress, files, dreq, ghostVars>>
    /\ UNCHANGED <<uploadVars, clockVars, serverVars>>

\* ========================================= destruction countdown (30 s timer)
\* The tests on roomCheck that let the callback go on to the destruction:
\* `roomCheck && roomCheck.status === 'terminating'` and not
\* `roomCheck.download_in_progress`.
CountdownProceedsMutant(roomCheck) == roomCheck.status = "terminating"
CountdownProceeds(roomCheck) ==
    roomCheck.status = "terminating" /\ ~roomCheck.download_in_progress

\* Everything the server process holds in memory is lost when it exits:
\* the handlers in flight, the timers and the dedup cache.
ProcessExits ==
    /\ jreq' = EmptyBag /\ dreq' = EmptyBag /\ areq' = EmptyBag
    /\ burnTimers' = EmptyBag /\ countdowns' = EmptyBag
    /\ recentLogs' = {}

\* The countdown's select of the room (roomCheck) and the tests on it.  A
\* room that is not terminating ends the callback.  With the lock set the
\* callback reaches `setTimeout(arguments.callee, 30000)`: in an arrow
\* function of an ES module `arguments` is not bound, so the callback throws
\* a ReferenceError and no further check is scheduled; nothing catches the
\* rejection, and depending on the runtime's unhandled-rejection mode the
\* process goes on without the timer or exits.
CountdownCheck(c, exits) ==
    /\ c.pc = "check"
    /\ LET roomCheck == IF roomRow
                          THEN [status |-> status,
                                download_in_progress |-> download_in_progress]
                          ELSE NoRoomCheck
       IN IF CountdownProceeds(roomCheck)
            THEN /\ countdowns' = Replace(countdowns, c, [c EXCEPT !.pc = "listFiles",
                                                                   !.roomCheck = roomCheck])
                 /\ UNCHANGED <<jreq, dreq, burnTimers, recentLogs, areq>>
            ELSE IF roomCheck.status = "terminating" /\ exits
                   THEN ProcessExits
                   ELSE /\ countdowns' = Remove(countdowns, c)
                        /\ UNCHANGED <<jreq, dreq, burnTimers, recentLogs, areq>>
    /\ UNCHANGED <<roomRow, guestTables, access_logs, mode, file_triggers, roomFields,
                   files, ghostVars, max_files, max_total_size_bytes, clockVars, serverVars, uploads>>

\* `select file_key from files where room_id = ...` (remainingFiles).
CountdownListFiles(c) ==
    /\ c.pc = "listFiles"
    /\ LET remainingFiles == {f \in Files : files[f].row}
       IN countdowns' = Replace(countdowns, c,
                          IF remainingFiles # {}
                            THEN [c EXCEPT !.pc = "deleteOrphans", !.keys = remainingFiles]
                            ELSE [c EXCEPT !.pc = "setDestroyed"])
    /\ UNCHANGED <<roomRow, guestTables, logVars, jreq, mode, file_triggers, roomFields,
                   files, dreq, burnTimers, ghostVars>>
    /\ UNCHANGED <<uploadVars, clockVars, serverVars>>

\* The loop of DeleteObjectCommands over the listed keys (one step: nothing
\* reads a blob of a terminating room in between).
CountdownDeleteOrphans(c) ==
    /\ c.pc = "deleteOrphans"
    /\ files' = [f \in Files |-> IF f \in c.keys THEN [files[f] EXCEPT !.blob = FALSE]
                                                 ELSE files[f]]
    /\ countdowns' = Replace(countdowns, c, [c EXCEPT !.pc = "setDestroyed", !.keys = {}])
    /\ UNCHANGED <<roomRow, guestTables, logVars, jreq, mode, file_triggers, roomFields,
                   dreq, burnTimers, ghostVars>>
    /\ UNCHANGED <<uploadVars, clockVars, serverVars>>

\* `update rooms set status = 'destroyed' where id = ...`.
CountdownSetDestroyed(c) ==
    /\ c.pc = "setDestroyed"
    /\ status' = IF roomRow THEN "destroyed" ELSE status
    /\ countdowns' = Replace(countdowns, c, [c EXCEPT !.pc = "deleteRoom"])
    /\ UNCHANGED <<roomRow, guestTables, logVars, jreq, mode, file_triggers,
                   remaining_files, download_in_progress, files, dreq, burnTimers, ghostVars>>
    /\ UNCHANGED <<uploadVars, clockVars, serverVars>>

\* `delete from rooms where id = ...`.
CountdownDeleteRoom(c) ==
    /\ c.pc = "deleteRoom"
    /\ IF roomRow
         THEN DeleteRoomRow
         ELSE UNCHANGED <<roomRow, room_presence, room_user_index, room_user_counter,
                          files, remaining_files, download_in_progress>>
    /\ countdowns' = Remove(countdowns, c)
    /\ UNCHANGED <<max_concurrent_users, logVars, jreq, mode, file_triggers, status,
                   dreq, burnTimers, ghostVars>>
    /\ UNCHANGED <<uploadVars, clockVars, serverVars>>

NextBurn ==
    \/ \E d \in Devices, f \in Files : DlGetSelect(d, f)
    \/ \E h \in Handlers(dreq) : DlGetAuthorize(h)
    \/ \E h \in Handlers(dreq) : DlGetAssignSelect(h)
    \/ \E h \in Handlers(dreq) : DlGetAssignCommit(h)
    \/ \E d \in Devices : DlStartAuthorize(d)
    \/ \E h \in Handlers(dreq) : DlStartLock(h)
    \/ \E d \in Devices, f \in Files, success \in BOOLEAN : DlEndAuthorize(d, f, success)
    \/ \E h \in Handlers(dreq) : DlEndUnlock(h)
    \/ \E h \in Handlers(dreq) : DlEndFileSelect(h)
    \/ \E h \in Handlers(dreq) : DlEndCountUpdate(h)
    \/ \E h \in Handlers(dreq) : DlEndLogCheck(h)
    \/ \E h \in Handlers(dreq) : DlEndAssignSelect(h)
    \/ \E h \in Handlers(dreq) : DlEndAssignCommit(h)
    \/ \E h \in Handlers(dreq) : DlEndLogInsert(h)
    \/ \E t \in Handlers(burnTimers), ok \in BOOLEAN : BurnDeleteBlob(t, ok)
    \/ \E t \in Handlers(burnTimers) : BurnMarkDestroyed(t)
    \/ \E t \in Handlers(burnTimers) : BurnDeleteRow(t)
    \/ \E t \in Handlers(burnTimers) : BurnReadRemaining(t)
    \/ \E t \in Handlers(burnTimers) : BurnWriteRemaining(t)
    \/ \E t \in Handlers(burnTimers) : BurnSetTerminating(t)
    \/ \E c \in Handlers(countdowns), exits \in BOOLEAN : CountdownCheck(c, exits)
    \/ \E c \in Handlers(countdowns) : CountdownListFiles(c)
    \/ \E c \in Handlers(countdowns) : CountdownDeleteOrphans(c)
    \/ \E c \in Handlers(countdowns) : CountdownSetDestroyed(c)
    \/ \E c \in Handlers(countdowns) : CountdownDeleteRoom(c)

\* Single-file downloads of one room: GET, /start, /end, the burn timers
\* and the countdowns.
SpecBurn == InitBurn /\ [][NextBurn]_vars

\* Archive downloads next to single-file ones, within the 30 s before a
\* countdown first fires: /bulk-mark, /end and the burn timers (with an
\* object store that answers their deletes).
NextBulk ==
    \/ \E d \in Devices, fileIds \in SUBSET Files \ {{}} : DlBulkAuthorize(d, fileIds)
    \/ \E h \in Handlers(dreq) : DlBulkRoomSelect(h)
    \/ \E h \in Handlers(dreq) : DlBulkMarkFile(h)
    \/ \E h \in Handlers(dreq), ok \in BOOLEAN : DlBulkDecrement(h, ok)
    \/ \E h \in Handlers(dreq) : DlBulkFallbackRead(h)
    \/ \E h \in Handlers(dreq) : DlBulkFallbackWrite(h)
    \/ \E h \in Handlers(dreq) : DlBulkFinalRead(h)
    \/ \E h \in Handlers(dreq) : DlBulkSetTerminating(h)
    \/ \E d \in Devices, f \in Files, success \in BOOLEAN : DlEndAuthorize(d, f, success)
    \/ \E h \in Handlers(dreq) : DlEndUnlock(h)
    \/ \E h \in Handlers(dreq) : DlEndFileSelect(h)
    \/ \E h \in Handlers(dreq) : DlEndCountUpdate(h)
    \/ \E h \in Handlers(dreq) : DlEndLogCheck(h)
    \/ \E h \in Handlers(dreq) : DlEndAssignSelect(h)
    \/ \E h \in Handlers(dreq) : DlEndAssignCommit(h)
    \/ \E h \in Handlers(dreq) : DlEndLogInsert(h)
    \/ \E t \in Handlers(burnTimers) : BurnDeleteBlob(t, TRUE)
    \/ \E t \in Handlers(burnTimers) : BurnMarkDestroyed(t)
    \/ \E t \in Handlers(burnTimers) : BurnDeleteRow(t)
    \/ \E t \in Handlers(burnTimers) : BurnReadRemaining(t)
    \/ \E t \in Handlers(burnTimers) : BurnWriteRemaining(t)
    \/ \E t \in Handlers(burnTimers) : BurnSetTerminating(t)

SpecBulk == InitBurn /\ [][NextBulk]_vars

\* Successful /end calls side by side in a room without burn, with the
\* dedup window allowed to elapse between their log calls.
NextEndLog ==
    \/ \E d \in Devices, f \in Files : DlEndConcurrent(d, f)
    \/ \E h \in Handlers(dreq) : DlEndUnlock(h)
    \/ \E h \in Handlers(dreq) : DlEndFileSelect(h)
    \/ \E h \in Handlers(dreq) : DlEndCountUpdate(h)
    \/ \E h \in Handlers(dreq) : DlEndLogCheck(h)
    \/ \E h \in Handlers(dreq) : DlEndAssignSelect(h)
    \/ \E h \in Handlers(dreq) : DlEndAssignCommit(h)
    \/ \E h \in Handlers(dreq) : DlEndLogInsert(h)
    \/ \E k \in LogKeys : DedupWindowElapses(k)

InitEndLog == InitBurn /\ mode = "normal"

SpecEndLog == InitEndLog /\ [][NextEndLog]_vars

\* GET /api/download, the status it answers a device with when its checks
\* run on one snapshot of the rows: 404 without the file row, 410 for a
\* destroyed room, a destroyed file or an expired room, then 403 from
\* authorizeRoomAccess, then 410 / 409 for a burn or one-time file, else
\* 200 with the signed URL.
GetStatus(d, f) ==
    IF ~(files[f].row /\ roomRow) THEN 404
    ELSE IF status = "destroyed" \/ files[f].file_status = "destroyed" \/ expired THEN 410
    ELSE IF ~authorizeRoomAccess(FALSE, d) THEN 403
    ELSE IF IsBurnFile(f) /\ files[f].download_count > 0 THEN 410
    ELSE IF IsBurnFile(f) /\ download_in_progress THEN 409
    ELSE 200

\* A normal room with files 1..k in which devices 1..n (possibly none) are
\* present, all but the last through a join, the last through heartbeats
\* only, and the others have no presence row.
InitRoutes ==
    /\ roomRow = TRUE
    /\ max_concurrent_users = UNLIMITED
    /\ \E n \in 0..MaxDevices :
          /\ room_presence = 1..n
          /\ room_user_index = [d \in Devices |-> IF d < n THEN d ELSE 0]
          /\ room_user_counter = Max(0, n - 1)
          /\ access_logs = [k \in LogKeys |->
                              IF k[1] = "room_access" /\ k[2] < n THEN 1 ELSE 0]
    /\ recentLogs = {}
    /\ jreq = EmptyBag
    /\ mode = "normal"
    /\ file_triggers \in BOOLEAN
    /\ status = "active"
    /\ \E k \in 1..MaxFiles :
          /\ files = [f \in Files |-> IF f <= k THEN LiveFile ELSE NoFile]
          /\ remaining_files = RemainingAfterUploads(k)
    /\ download_in_progress = FALSE
    /\ dreq = EmptyBag
    /\ burnTimers = EmptyBag
    /\ countdowns = EmptyBag
    /\ downloading = {}
    /\ burnsScheduled = [f \in Files |-> 0]
    /\ burnDecrements = [f \in Files |-> 0]
    /\ max_files = MaxFiles
    /\ max_total_size_bytes = MaxFiles * MaxFileSize
    /\ uploads = [f \in Files |-> IF files[f].row THEN "completed" ELSE "none"]
    /\ areq = EmptyBag
    /\ stale_presence = {}
    /\ is_permanent = FALSE
    /\ expired = FALSE
    /\ old_uploads = {}
    /\ InitServer

\* The four download routes of a normal room, called by devices with and
\* without a presence row, while the room may pass its expires_at.
NextRoutes ==
    \/ \E d \in Devices, f \in Files : DlGetSelect(d, f)
    \/ \E h \in Handlers(dreq) : DlGetAuthorize(h)
    \/ \E h \in Handlers(dreq) : DlGetAssignSelect(h)
    \/ \E h \in Handlers(dreq) : DlGetAssignCommit(h)
    \/ \E d \in Devices : DlStartAuthorize(d)
    \/ \E h \in Handlers(dreq) : DlStartLock(h)
    \/ \E d \in Devices, f \in Files, success \in BOOLEAN : DlEndAuthorize(d, f, success)
    \/ \E h \in Handlers(dreq) : DlEndUnlock(h)
    \/ \E h \in Handlers(dreq) : DlEndFileSelect(h)
    \/ \E h \in Handlers(dreq) : DlEndCountUpdate(h)
    \/ \E h \in Handlers(dreq) : DlEndLogCheck(h)
    \/ \E h \in Handlers(dreq) : DlEndAssignSelect(h)
    \/ \E h \in Handlers(dreq) : DlEndAssignCommit(h)
    \/ \E h \in Handlers(dreq) : DlEndLogInsert(h)
    \/ \E d \in Devices, fileIds \in SUBSET Files \ {{}} : DlBulkAuthorize(d, fileIds)
    \/ \E h \in Handlers(dreq) : DlBulkRoomSelect(h)
    \/ \E h \in Handlers(dreq) : DlBulkMarkFile(h)
    \/ RoomExpires

SpecRoutes == InitRoutes /\ [][NextRoutes]_vars

\* The same routes with requests of the author's client, which sends its
\* device id along with the author token.
NextNumbers == NextRoutes \/ \E d \in Devices, f \in Files : DlEndAsAuthor(d, f)
SpecNumbers == InitRoutes /\ [][NextNumbers]_vars

\* ======================================================= multipart upload
\* x-author-token values a request may carry: the room's token, another
\* one, none.
Tokens == {author_token, "guess", ""}
Sizes == 1..MaxFileSize

\* isAuthorToken: false without a token or without the room_secrets row,
\* otherwise `secret.author_token === authorToken`.
isAuthorTokenMutant(authorToken) == authorToken # ""
isAuthorToken(authorToken) ==
    authorToken # "" /\ roomRow /\ authorToken = author_token

RECURSIVE SumSizes(_)
SumSizes(S) == IF S = {} THEN 0
               ELSE LET f == CHOOSE g \in S : TRUE
                    IN files[f].size + SumSizes(S \ {f})

\* rooms.file_count and rooms.total_size_bytes, kept by the metadata store
\* together with every insert and delete of a files row.
file_count == Cardinality({f \in Files : files[f].row})
total_size_bytes == SumSizes({f \in Files : files[f].row})

\* ensureRoomQuota on the usage getRoomUsage has just read.
ensureRoomQuota(incomingSize) ==
    /\ file_count + 1 <= max_files
    /\ total_size_bytes + incomingSize <= max_total_size_bytes

\* The metadata store's own check of an insert into files ("Room file
\* limit exceeded" / "Room size quota exceeded", which mapQuotaError turns
\* into a 413), made atomically with the insert.
InsertWithinQuotaMutant(size) == TRUE
InsertWithinQuota(size) ==
    /\ file_count + 1 <= max_files
    /\ total_size_bytes + size <= max_total_size_bytes

\* A handler of an author route in flight.  code: the HTTP status it is
\* about to answer with (pc = "respond"); touched: it has called the object
\* store or written metadata; abortTried: it has sent AbortMultipartUpload;
\* finalized: "ok" / "failed" once CompleteMultipartUpload has returned;
\* locked: download_in_progress as it stood when the handler started.
\* For a reaper run, due: the room was expired and not permanent when the
\* run started; failed: a step of the run on this room failed; skipped: the
\* failure of another item of the run was logged and skipped.
AuthorHandler(op, pc, token, f, size) ==
    [op |-> op, pc |-> pc, token |-> token, file |-> f, size |-> size, code |-> 0,
     touched |-> FALSE, abortTried |-> FALSE, finalized |-> "no", read |-> 0, keys |-> {},
     locked |-> download_in_progress, due |-> FALSE, failed |-> FALSE, skipped |-> FALSE]

\* The handler ends: its response is computed and about to be sent.
Answer(h, code) == [h EXCEPT !.pc = "respond", !.code = code, !.read = 0, !.keys = {}]

\* A request arrives and its handler runs up to the end of isAuthorToken:
\* 403 for a token that is not the room's.
Admit(op, token, f, size, pc) ==
    /\ BagCardinality(areq) < MaxAuthorSlots
    /\ areq' = areq (+) SetToBag({IF isAuthorToken(token)
                                    THEN AuthorHandler(op, pc, token, f, size)
                                    ELSE Answer(AuthorHandler(op, pc, token, f, size), 403)})

\* res.json / res.status(...).json: the response leaves.
MpRespond(h) ==
    /\ h.pc = "respond"
    /\ areq' = Remove(areq, h)
    /\ UNCHANGED <<guestVars, burnVars, max_files, max_total_size_bytes, clockVars, serverVars, uploads>>

\* Upload ids the object store has not handed out yet, less those the
\* initiates in flight will take.
FreshUploads == {f \in Files : uploads[f] = "none" /\ ~files[f].row}
InitiatesInFlight == {h \in Handlers(areq) : h.op = "initiate" /\ h.pc # "respond"}
InitiateCount == IF InitiatesInFlight = {} THEN 0
                 ELSE BagCardinality([h \in InitiatesInFlight |-> areq[h]])

\* POST /api/multipart-upload/initiate up to isAuthorToken.
MpInitiateAuthorize(token, size) ==
    /\ InitiateCount < Cardinality(FreshUploads)
    /\ Admit("initiate", token, 0, size, "roomSelect")
    /\ UNCHANGED <<guestVars, burnVars, max_files, max_total_size_bytes, clockVars, serverVars, uploads>>

\* initiate: the select of the (unexpired) room; 404 without it.
MpInitiateRoomSelect(h) ==
    /\ h.op = "initiate" /\ h.pc = "roomSelect"
    /\ areq' = Replace(areq, h, IF roomRow /\ ~expired THEN [h EXCEPT !.pc = "quota"]
                                                         ELSE Answer(h, 404))
    /\ UNCHANGED <<guestVars, burnVars, max_files, max_total_size_bytes, clockVars, serverVars, uploads>>

\* initiate: ensureRoomQuota; 413 over quota (getRoomUsage throws without
\* the row: 500).
MpInitiateQuota(h) ==
    /\ h.op = "initiate" /\ h.pc = "quota"
    /\ areq' = Replace(areq, h, IF ~roomRow THEN Answer(h, 500)
                                ELSE IF ensureRoomQuota(h.size)
                                       THEN [h EXCEPT !.pc = "create"]
                                       ELSE Answer(h, 413))
    /\ UNCHANGED <<guestVars, burnVars, max_files, max_total_size_bytes, clockVars, serverVars, uploads>>

\* initiate: CreateMultipartUploadCommand under a fresh key; the store
\* hands out an upload id (ok) or fails (500).
MpInitiateCreate(h, ok) ==
    /\ h.op = "initiate" /\ h.pc = "create"
    /\ \E f \in FreshUploads :
          IF ok
            THEN /\ uploads' = [uploads EXCEPT ![f] = "open"]
                 /\ areq' = Replace(areq, h, Answer([h EXCEPT !.file = f, !.touched = TRUE], 200))
            ELSE /\ UNCHANGED uploads
                 /\ areq' = Replace(areq, h, Answer([h EXCEPT !.touched = TRUE], 500))
    /\ UNCHANGED <<guestVars, burnVars, max_files, max_total_size_bytes, clockVars, serverVars>>

\* POST /api/multipart-upload/get-part-urls: isAuthorToken, then the URLs
\* are signed locally (no call to the store).
MpPartUrls(token, f) ==
    /\ BagCardinality(areq) < MaxAuthorSlots
    /\ areq' = areq (+) SetToBag({Answer(AuthorHandler("partUrls", "sign", token, f, 0),
                                         IF isAuthorToken(token) THEN 200 ELSE 403)})
    /\ UNCHANGED <<guestVars, burnVars, max_files, max_total_size_bytes, clockVars, serverVars, uploads>>

\* POST /api/multipart-upload/complete up to isAuthorToken; uploadId and
\* fileKey (f) and fileSize are what the client sends.
MpCompleteAuthorize(token, f, size) ==
    /\ Admit("complete", token, f, size, "roomSelect")
    /\ UNCHANGED <<guestVars, burnVars, max_files, max_total_size_bytes, clockVars, serverVars, uploads>>

\* complete: the select of the (unexpired) room; without it the upload is
\* aborted before the 404.
MpCompleteRoomSelect(h) ==
    /\ h.op = "complete" /\ h.pc = "roomSelect"
    /\ areq' = Replace(areq, h, [h EXCEPT !.pc = IF roomRow /\ ~expired THEN "quota"
                                                                         ELSE "abortMissing"])
    /\ UNCHANGED <<guestVars, burnVars, max_files, max_total_size_bytes, clockVars, serverVars, uploads>>

\* AbortMultipartUploadCommand as the object store answers it: an open
\* upload is aborted; an upload id it does not know (never created,
\* aborted or completed) is an error, NoSuchUpload.
StoreAborts(f) == uploads[f] = "open"

\* complete, room missing: AbortMultipartUploadCommand inside try / catch,
\* then 404.
MpCompleteAbortMissing(h) ==
    /\ h.op = "complete" /\ h.pc = "abortMissing"
    /\ uploads' = IF StoreAborts(h.file) THEN [uploads EXCEPT ![h.file] = "aborted"]
                                         ELSE uploads
    /\ areq' = Replace(areq, h, Answer([h EXCEPT !.touched = TRUE, !.abortTried = TRUE], 404))
    /\ UNCHANGED <<guestVars, burnVars, max_files, max_total_size_bytes, clockVars, serverVars>>

\* complete: the ensureRoomQuota recheck; 413 over quota.
MpCompleteQuota(h) ==
    /\ h.op = "complete" /\ h.pc = "quota"
    /\ areq' = Replace(areq, h, IF ~roomRow THEN Answer(h, 500)
                                ELSE IF ensureRoomQuota(h.size)
                                       THEN [h EXCEPT !.pc = "finalize"]
                                       ELSE Answer(h, 413))
    /\ UNCHANGED <<guestVars, burnVars, max_files, max_total_size_bytes, clockVars, serverVars, uploads>>

\* complete: CompleteMultipartUploadCommand.  It succeeds only for an open
\* upload (and may fail for one: ok = FALSE); a failure throws into the
\* handler's catch, which answers 500.
MpCompleteFinalize(h, ok) ==
    /\ h.op = "complete" /\ h.pc = "finalize"
    /\ IF ok /\ uploads[h.file] = "open"
         THEN /\ uploads' = [uploads EXCEPT ![h.file] = "completed"]
              /\ files' = [files EXCEPT ![h.file].blob = TRUE]
              /\ areq' = Replace(areq, h, [h EXCEPT !.pc = "insert", !.touched = TRUE,
                                                    !.finalized = "ok"])
         ELSE /\ areq' = Replace(areq, h, Answer([h EXCEPT !.touched = TRUE,
                                                           !.finalized = "failed"], 500))
              /\ UNCHANGED <<uploads, files>>
    /\ UNCHANGED <<guestVars, mode, file_triggers, roomFields, dreq, burnTimers, countdowns,
                   ghostVars, max_files, max_total_size_bytes, clockVars, serverVars>>

\* complete: the insert into files.  The foreign key needs the room row
\* and the store's quota check must pass, else dbError (413 for a quota
\* message, 500 otherwise); after_file_insert adds 1 to remaining_files.
MpCompleteInsert(h) ==
    /\ h.op = "complete" /\ h.pc = "insert"
    /\ IF roomRow /\ InsertWithinQuota(h.size)
         THEN /\ files' = [files EXCEPT ![h.file] =
                             [LiveFile EXCEPT !.size = h.size, !.blob = files[h.file].blob]]
              /\ remaining_files' = IF file_triggers THEN remaining_files + 1
                                                     ELSE remaining_files
              /\ areq' = Replace(areq, h, [h EXCEPT !.pc = "increment"])
         ELSE /\ areq' = Replace(areq, h, Answer(h, IF roomRow THEN 413 ELSE 500))
              /\ UNCHANGED <<files, remaining_files>>
    /\ UNCHANGED <<guestVars, mode, file_triggers, status, download_in_progress, dreq,
                   burnTimers, countdowns, ghostVars, max_files, max_total_size_bytes, clockVars, serverVars,
                   uploads>>

\* complete: rpc increment_remaining_files; an rpc error (ok = FALSE)
\* leads to the fallback.  (The scan_status update that follows changes
\* nothing kept here.)
MpCompleteIncrement(h, ok) ==
    /\ h.op = "complete" /\ h.pc = "increment"
    /\ IF ok
         THEN /\ remaining_files' = IF roomRow THEN remaining_files + 1 ELSE remaining_files
              /\ areq' = Replace(areq, h, Answer(h, 200))
         ELSE /\ areq' = Replace(areq, h, [h EXCEPT !.pc = "fallbackRead"])
              /\ UNCHANGED remaining_files
    /\ UNCHANGED <<guestVars, mode, file_triggers, status, download_in_progress, files, dreq,
                   burnTimers, countdowns, ghostVars, max_files, max_total_size_bytes, clockVars, serverVars,
                   uploads>>

\* complete fallback: `select remaining_files` (currentRoom).
MpCompleteFallbackRead(h) ==
    /\ h.op = "complete" /\ h.pc = "fallbackRead"
    /\ areq' = Replace(areq, h, [h EXCEPT !.pc = "fallbackWrite",
                                          !.read = IF roomRow THEN remaining_files ELSE 0])
    /\ UNCHANGED <<guestVars, burnVars, max_files, max_total_size_bytes, clockVars, serverVars, uploads>>

\* complete fallback: writes (currentRoom?.remaining_files || 0) + 1.
MpCompleteFallbackWrite(h) ==
    /\ h.op = "complete" /\ h.pc = "fallbackWrite"
    /\ remaining_files' = IF roomRow THEN h.read + 1 ELSE remaining_files
    /\ areq' = Replace(areq, h, Answer(h, 200))
    /\ UNCHANGED <<guestVars, mode, file_triggers, status, download_in_progress, files, dreq,
                   burnTimers, countdowns, ghostVars, max_files, max_total_size_bytes, clockVars, serverVars,
                   uploads>>

\* POST /api/multipart-upload/abort up to isAuthorToken.
MpAbortAuthorize(token, f) ==
    /\ Admit("abort", token, f, 0, "abort")
    /\ UNCHANGED <<guestVars, burnVars, max_files, max_total_size_bytes, clockVars, serverVars, uploads>>

\* abort: AbortMultipartUploadCommand; the store's error is thrown into
\* the handler's catch, which answers 500.  lenient: a store that answers
\* an upload id it does not know with success instead of NoSuchUpload.
MpAbortStore(h, lenient) ==
    /\ h.op = "abort" /\ h.pc = "abort"
    /\ IF StoreAborts(h.file) \/ lenient
         THEN /\ uploads' = IF StoreAborts(h.file)
                               THEN [uploads EXCEPT ![h.file] = "aborted"]
                               ELSE uploads
              /\ areq' = Replace(areq, h, Answer([h EXCEPT !.touched = TRUE,
                                                           !.abortTried = TRUE], 200))
         ELSE /\ UNCHANGED uploads
              /\ areq' = Replace(areq, h, Answer([h EXCEPT !.touched = TRUE,
                                                           !.abortTried = TRUE], 500))
    /\ UNCHANGED <<guestVars, burnVars, max_files, max_total_size_bytes, clockVars, serverVars>>

\* A room right after its creation, with a small file quota or a small
\* byte quota.
InitUpload ==
    /\ roomRow = TRUE
    /\ max_concurrent_users = UNLIMITED
    /\ room_presence = {}
    /\ room_user_index = [d \in Devices |-> 0]
    /\ room_user_counter = 0
    /\ access_logs = [k \in LogKeys |-> 0]
    /\ recentLogs = {}
    /\ jreq = EmptyBag
    /\ mode \in {"burn", "normal"}
    /\ file_triggers \in BOOLEAN
    /\ status = "active"
    /\ remaining_files = 0
    /\ download_in_progress = FALSE
    /\ files = [f \in Files |-> NoFile]
    /\ dreq = EmptyBag
    /\ burnTimers = EmptyBag
    /\ countdowns = EmptyBag
    /\ downloading = {}
    /\ burnsScheduled = [f \in Files |-> 0]
    /\ burnDecrements = [f \in Files |-> 0]
    /\ \E q \in {<<SmallMaxFiles, MaxFiles * MaxFileSize>>, <<MaxFiles, SmallMaxBytes>>} :
          /\ max_files = q[1]
          /\ max_total_size_bytes = q[2]
    /\ uploads = [f \in Files |-> "none"]
    /\ areq = EmptyBag
    /\ stale_presence = {}
    /\ is_permanent = FALSE
    /\ expired = FALSE
    /\ old_uploads = {}
    /\ InitServer

NextUpload ==
    \/ \E token \in Tokens, size \in Sizes : MpInitiateAuthorize(token, size)
    \/ \E h \in Handlers(areq) : MpInitiateRoomSelect(h)
    \/ \E h \in Handlers(areq) : MpInitiateQuota(h)
    \/ \E h \in Handlers(areq), ok \in BOOLEAN : MpInitiateCreate(h, ok)
    \/ \E token \in Tokens, f \in Files : MpPartUrls(token, f)
    \/ \E token \in Tokens, f \in Files, size \in Sizes : MpCompleteAuthorize(token, f, size)
    \/ \E h \in Handlers(areq) : MpCompleteRoomSelect(h)
    \/ \E h \in Handlers(areq) : MpCompleteAbortMissing(h)
    \/ \E h \in Handlers(areq) : MpCompleteQuota(h)
    \/ \E h \in Handlers(areq), ok \in BOOLEAN : MpCompleteFinalize(h, ok)
    \/ \E h \in Handlers(areq) : MpCompleteInsert(h)
    \/ \E h \in Handlers(areq), ok \in BOOLEAN : MpCompleteIncrement(h, ok)
    \/ \E h \in Handlers(areq) : MpCompleteFallbackRead(h)
    \/ \E h \in Handlers(areq) : MpCompleteFallbackWrite(h)
    \/ \E token \in Tokens, f \in Files : MpAbortAuthorize(token, f)
    \/ \E h \in Handlers(areq), lenient \in BOOLEAN : MpAbortStore(h, lenient)
    \/ \E h \in Handlers(areq) : MpRespond(h)
    \/ RoomRowDeleted

\* The multipart upload routes on one room.
SpecUpload == InitUpload /\ [][NextUpload]_vars

\* A burn room whose only file has just been downloaded: /download/end has
\* counted it and scheduled its destruction, while the author has further
\* multipart uploads open.
InitEnding ==
    /\ roomRow = TRUE
    /\ max_concurrent_users = UNLIMITED
    /\ room_presence = {}
    /\ room_user_index = [d \in Devices |-> 0]
    /\ room_user_counter = 0
    /\ access_logs = [k \in LogKeys |-> 0]
    /\ recentLogs = {}
    /\ jreq = EmptyBag
    /\ mode = "burn"
    /\ file_triggers \in BOOLEAN
    /\ status = "active"
    /\ files = [f \in Files |-> IF f = 1 THEN [LiveFile EXCEPT !.download_count = 1]
                                         ELSE NoFile]
    /\ remaining_files = RemainingAfterUploads(1)
    /\ download_in_progress = FALSE
    /\ dreq = EmptyBag
    /\ burnTimers = SetToBag({BurnTimer(1)})
    /\ countdowns = EmptyBag
    /\ downloading = {}
    /\ burnsScheduled = [f \in Files |-> IF f = 1 THEN 1 ELSE 0]
    /\ burnDecrements = [f \in Files |-> 0]
    /\ max_files = MaxFiles
    /\ max_total_size_bytes = MaxFiles * MaxFileSize
    /\ uploads = [f \in Files |-> IF f = 1 THEN "completed" ELSE "open"]
    /\ areq = EmptyBag
    /\ stale_presence = {}
    /\ is_permanent = FALSE
    /\ expired = FALSE
    /\ old_uploads = {}
    /\ InitServer

NextEnding ==
    \/ \E f \in Files, size \in Sizes : MpCompleteAuthorize(author_token, f, size)
    \/ \E h \in Handlers(areq) : MpCompleteRoomSelect(h)
    \/ \E h \in Handlers(areq) : MpCompleteAbortMissing(h)
    \/ \E h \in Handlers(areq) : MpCompleteQuota(h)
    \/ \E h \in Handlers(areq), ok \in BOOLEAN : MpCompleteFinalize(h, ok)
    \/ \E h \in Handlers(areq) : MpCompleteInsert(h)
    \/ \E h \in Handlers(areq), ok \in BOOLEAN : MpCompleteIncrement(h, ok)
    \/ \E h \in Handlers(areq) : MpCompleteFallbackRead(h)
    \/ \E h \in Handlers(areq) : MpCompleteFallbackWrite(h)
    \/ \E h \in Handlers(areq) : MpRespond(h)
    \/ \E t \in Handlers(burnTimers), ok \in BOOLEAN : BurnDeleteBlob(t, ok)
    \/ \E t \in Handlers(burnTimers) : BurnMarkDestroyed(t)
    \/ \E t \in Handlers(burnTimers) : BurnDeleteRow(t)
    \/ \E t \in Handlers(burnTimers) : BurnReadRemaining(t)
    \/ \E t \in Handlers(burnTimers) : BurnWriteRemaining(t)
    \/ \E t \in Handlers(burnTimers) : BurnSetTerminating(t)
    \/ \E c \in Handlers(countdowns), exits \in BOOLEAN : CountdownCheck(c, exits)
    \/ \E c \in Handlers(countdowns) : CountdownListFiles(c)
    \/ \E c \in Handlers(countdowns) : CountdownDeleteOrphans(c)
    \/ \E c \in Handlers(countdowns) : CountdownSetDestroyed(c)
    \/ \E c \in Handlers(countdowns) : CountdownDeleteRoom(c)

\* Multipart Completes while the room's last burn file is destroyed and the
\* room terminates.
SpecEnding == InitEnding /\ [][NextEnding]_vars

\* ------------------------------------- delete-room, delete-file, reaper
\* `select file_key from files where room_id = roomId`: the keys the
\* handler will delete.
SweepListFiles(h) ==
    LET keys == {f \in Files : files[f].row}
    IN [h EXCEPT !.keys = keys, !.pc = IF keys = {} THEN "deleteRow" ELSE "deleteBlobs"]

\* One DeleteObjectCommand of the loop over the listed files (errors are
\* caught and the loop goes on).
SweepDeleteBlob(h, f) ==
    /\ f \in h.keys
    /\ files' = [files EXCEPT ![f].blob = FALSE]
    /\ areq' = Replace(areq, h, [h EXCEPT !.keys = h.keys \ {f}, !.touched = TRUE,
                                          !.pc = IF h.keys = {f} THEN "deleteRow"
                                                                 ELSE "deleteBlobs"])
    /\ UNCHANGED <<guestVars, mode, file_triggers, roomFields, dreq, burnTimers, countdowns,
                   ghostVars, max_files, max_total_size_bytes, clockVars, serverVars, uploads>>

\* `delete from rooms where id = roomId`; next is what the handler becomes.
SweepDeleteRow(h, next) ==
    /\ IF roomRow
         THEN /\ DeleteRoomRow
              /\ areq' = Replace(areq, h, [next EXCEPT !.touched = TRUE])
         ELSE /\ areq' = Replace(areq, h, next)
              /\ UNCHANGED <<roomRow, room_presence, room_user_index, room_user_counter,
                             files, remaining_files, download_in_progress>>
    /\ UNCHANGED <<max_concurrent_users, access_logs, recentLogs, jreq, mode, file_triggers,
                   status, dreq, burnTimers, countdowns, ghostVars, max_files,
                   max_total_size_bytes, clockVars, serverVars, uploads>>

\* DELETE /api/delete-room/:roomId up to the token check: 403 without a
\* token, 404 without the room, 403 for a token that is not rooms.author_token.
DelRoomSelect(token) ==
    /\ BagCardinality(areq) < MaxAuthorSlots
    /\ LET h == AuthorHandler("deleteRoom", "listFiles", token, 0, 0)
       IN areq' = areq (+) SetToBag({IF token = "" THEN Answer(h, 403)
                                     ELSE IF ~roomRow THEN Answer(h, 404)
                                     ELSE IF token # rooms_author_token THEN Answer(h, 403)
                                     ELSE h})
    /\ UNCHANGED <<guestVars, burnVars, max_files, max_total_size_bytes, clockVars, serverVars, uploads>>

\* delete-room: the select of the room's files.
DelRoomListFiles(h) ==
    /\ h.op = "deleteRoom" /\ h.pc = "listFiles"
    /\ areq' = Replace(areq, h, SweepListFiles(h))
    /\ UNCHANGED <<guestVars, burnVars, max_files, max_total_size_bytes, clockVars, serverVars, uploads>>

\* delete-room: one blob of the loop is deleted.
DelRoomDeleteBlob(h) ==
    /\ h.op = "deleteRoom" /\ h.pc = "deleteBlobs"
    /\ \E f \in h.keys : SweepDeleteBlob(h, f)

\* delete-room: the room row is deleted, then { success: true }.
DelRoomDeleteRow(h) ==
    /\ h.op = "deleteRoom" /\ h.pc = "deleteRow"
    /\ SweepDeleteRow(h, Answer(h, 200))

\* DELETE /api/delete-file/:fileId up to the token check: 403 without a
\* token, 404 without the file row (inner join with its room), 403 for a
\* token that is not the room's.
DelFileSelect(token, f) ==
    /\ BagCardinality(areq) < MaxAuthorSlots
    /\ LET h == AuthorHandler("deleteFile", "deleteBlob", token, f, 0)
       IN areq' = areq (+) SetToBag({IF token = "" THEN Answer(h, 403)
                                     ELSE IF ~(roomRow /\ files[f].row) THEN Answer(h, 404)
                                     ELSE IF token # rooms_author_token THEN Answer(h, 403)
                                     ELSE h})
    /\ UNCHANGED <<guestVars, burnVars, max_files, max_total_size_bytes, clockVars, serverVars, uploads>>

\* delete-file: DeleteObjectCommand (errors are caught).
DelFileDeleteBlob(h) ==
    /\ h.op = "deleteFile" /\ h.pc = "deleteBlob"
    /\ files' = [files EXCEPT ![h.file].blob = FALSE]
    /\ areq' = Replace(areq, h, [h EXCEPT !.pc = "deleteRow", !.touched = TRUE])
    /\ UNCHANGED <<guestVars, mode, file_triggers, roomFields, dreq, burnTimers, countdowns,
                   ghostVars, max_files, max_total_size_bytes, clockVars, serverVars, uploads>>

\* delete-file: `delete from files where id = fileId`; after_file_delete
\* subtracts 1 from remaining_files.
DelFileDeleteRow(h) ==
    /\ h.op = "deleteFile" /\ h.pc = "deleteRow"
    /\ IF files[h.file].row
         THEN /\ files' = [files EXCEPT ![h.file] = [NoFile EXCEPT !.blob = files[h.file].blob]]
              /\ remaining_files' = IF file_triggers THEN Decremented(remaining_files)
                                                     ELSE remaining_files
         ELSE UNCHANGED <<files, remaining_files>>
    /\ areq' = Replace(areq, h, [h EXCEPT !.pc = "decrement"])
    /\ UNCHANGED <<guestVars, mode, file_triggers, status, download_in_progress, dreq,
                   burnTimers, countdowns, ghostVars, max_files, max_total_size_bytes, clockVars, serverVars,
                   uploads>>

\* delete-file: rpc decrement_remaining_files; an rpc error (ok = FALSE)
\* leads to the fallback.
DelFileDecrement(h, ok) ==
    /\ h.op = "deleteFile" /\ h.pc = "decrement"
    /\ IF ok
         THEN /\ remaining_files' = IF roomRow THEN Decremented(remaining_files)
                                               ELSE remaining_files
              /\ areq' = Replace(areq, h, Answer(h, 200))
         ELSE /\ areq' = Replace(areq, h, [h EXCEPT !.pc = "fallbackRead"])
              /\ UNCHANGED remaining_files
    /\ UNCHANGED <<guestVars, mode, file_triggers, status, download_in_progress, files, dreq,
                   burnTimers, countdowns, ghostVars, max_files, max_total_size_bytes, clockVars, serverVars,
                   uploads>>

\* delete-file fallback: `select remaining_files` (currentRoom).
DelFileFallbackRead(h) ==
    /\ h.op = "deleteFile" /\ h.pc = "fallbackRead"
    /\ areq' = Replace(areq, h, [h EXCEPT !.pc = "fallbackWrite",
                                          !.read = IF roomRow THEN remaining_files ELSE 0])
    /\ UNCHANGED <<guestVars, burnVars, max_files, max_total_size_bytes, clockVars, serverVars, uploads>>

\* delete-file fallback: writes Math.max(0, (currentRoom?.remaining_files || 0) - 1).
DelFileFallbackWrite(h) ==
    /\ h.op = "deleteFile" /\ h.pc = "fallbackWrite"
    /\ remaining_files' = IF roomRow THEN Max(0, h.read - 1) ELSE remaining_files
    /\ areq' = Replace(areq, h, Answer(h, 200))
    /\ UNCHANGED <<guestVars, mode, file_triggers, status, download_in_progress, files, dreq,
                   burnTimers, countdowns, ghostVars, max_files, max_total_size_bytes, clockVars, serverVars,
                   uploads>>

\* Reaper runs in flight (the cron job starts one at a time).
ReaperRuns == {h \in Handlers(areq) : h.op = "reaper"}

\* The filter of the reaper's select: `.lt('expires_at', now)` and
\* `.eq('is_permanent', false)`.
ReaperSelectsMutant == roomRow /\ expired
ReaperSelects == roomRow /\ expired /\ ~is_permanent

\* cleanupIncompleteUploads catches its own errors and cleanupExpiredRooms
\* awaits it without looking at an outcome: the sweep of expired rooms
\* follows whether the listing worked (ok) or not.
AfterStaleUploadsMutant(ok) == IF ok THEN "selectExpired" ELSE "done"
AfterStaleUploads(ok) == "selectExpired"

\* cleanupIncompleteUploads, the filter of its loop over the listed
\* uploads: `uploadAge > STALE_THRESHOLD_MS` (24 h).
StaleUploadsMutant == {f \in Files : uploads[f] = "open"}
StaleUploads == {f \in Files : uploads[f] = "open" /\ f \in old_uploads}

\* cleanupExpiredRooms starts: cleanupIncompleteUploads lists the store's
\* multipart uploads; stale are those initiated more than 24 h ago.  A
\* listing that fails (ok = FALSE) is logged.
ReaperListUploads(stale, ok) ==
    /\ ReaperRuns = {}
    /\ BagCardinality(areq) < MaxAuthorSlots
    /\ stale = StaleUploads
    /\ areq' = areq (+) SetToBag({[AuthorHandler("reaper", "abortStale", "", 0, 0)
                                     EXCEPT !.due = ReaperSelects,
                                            !.keys = IF ok THEN stale ELSE {},
                                            !.skipped = ~ok,
                                            !.pc = IF ok /\ stale # {}
                                                     THEN "abortStale"
                                                     ELSE AfterStaleUploads(ok)]})
    /\ UNCHANGED <<guestVars, burnVars, max_files, max_total_size_bytes, clockVars, serverVars, uploads>>

\* reaper: one AbortMultipartUploadCommand of the loop over stale uploads;
\* an abort that fails (ok = FALSE, or an upload the store no longer
\* knows) is logged and the loop goes on.
ReaperAbortStale(h, ok) ==
    /\ h.op = "reaper" /\ h.pc = "abortStale"
    /\ \E f \in h.keys :
          LET aborts == ok /\ StoreAborts(f)
          IN /\ uploads' = IF aborts THEN [uploads EXCEPT ![f] = "aborted"] ELSE uploads
             /\ areq' = Replace(areq, h, [h EXCEPT !.keys = h.keys \ {f},
                                                   !.skipped = h.skipped \/ ~aborts,
                                                   !.pc = IF h.keys = {f}
                                                            THEN AfterStaleUploads(TRUE)
                                                            ELSE "abortStale"])
    /\ UNCHANGED <<guestVars, burnVars, max_files, max_total_size_bytes, clockVars, serverVars>>

\* reaper: the select of the rooms with expires_at in the past that are
\* not permanent.  The run ends on roomsError (ok = FALSE) and without a
\* room; others: another expired room comes before this one in the loop.
ReaperSelectExpired(h, ok, others) ==
    /\ h.op = "reaper" /\ h.pc = "selectExpired"
    /\ areq' = Replace(areq, h,
                 IF ~ok THEN [h EXCEPT !.pc = "done", !.failed = TRUE]
                 ELSE IF ~ReaperSelects THEN [h EXCEPT !.pc = "done"]
                 ELSE [h EXCEPT !.pc = IF others THEN "otherRoom" ELSE "listFiles"])
    /\ UNCHANGED <<guestVars, burnVars, max_files, max_total_size_bytes, clockVars, serverVars, uploads>>

\* reaper: the loop's pass over another expired room (its files, blobs and
\* row are no state of this room); what fails in it (ok = FALSE) is logged
\* and the loop goes on with the next room.
ReaperOtherRoom(h, ok) ==
    /\ h.op = "reaper" /\ h.pc = "otherRoom"
    /\ areq' = Replace(areq, h, [h EXCEPT !.pc = "listFiles", !.skipped = h.skipped \/ ~ok])
    /\ UNCHANGED <<guestVars, burnVars, max_files, max_total_size_bytes, clockVars, serverVars, uploads>>

\* reaper: the select of the expired room's files; on filesError
\* (ok = FALSE) the room is skipped (`continue`).
ReaperListFiles(h, ok) ==
    /\ h.op = "reaper" /\ h.pc = "listFiles"
    /\ areq' = Replace(areq, h, IF ok THEN SweepListFiles(h)
                                      ELSE [h EXCEPT !.pc = "done", !.failed = TRUE])
    /\ UNCHANGED <<guestVars, burnVars, max_files, max_total_size_bytes, clockVars, serverVars, uploads>>

\* reaper: one blob of the loop is deleted; a DeleteObjectCommand that
\* fails (ok = FALSE) is logged and the loop goes on.
ReaperDeleteBlob(h, ok) ==
    /\ h.op = "reaper" /\ h.pc = "deleteBlobs"
    /\ \E f \in h.keys :
          IF ok
            THEN SweepDeleteBlob(h, f)
            ELSE /\ areq' = Replace(areq, h, [h EXCEPT !.keys = h.keys \ {f},
                                                       !.skipped = TRUE,
                                                       !.pc = IF h.keys = {f}
                                                                THEN "deleteRow"
                                                                ELSE "deleteBlobs"])
                 /\ UNCHANGED <<guestVars, burnVars, max_files, max_total_size_bytes,
                                clockVars, serverVars, uploads>>

\* reaper: the room row is deleted; a deleteError (ok = FALSE) is logged.
\* The loop is over.
ReaperDeleteRow(h, ok) ==
    /\ h.op = "reaper" /\ h.pc = "deleteRow"
    /\ IF ok
         THEN SweepDeleteRow(h, [h EXCEPT !.pc = "done"])
         ELSE /\ areq' = Replace(areq, h, [h EXCEPT !.pc = "done", !.failed = TRUE])
              /\ UNCHANGED <<guestVars, burnVars, max_files, max_total_size_bytes,
                             clockVars, serverVars, uploads>>

\* reaper: cleanupExpiredRooms returns.
ReaperDone(h) ==
    /\ h.op = "reaper" /\ h.pc = "done"
    /\ areq' = Remove(areq, h)
    /\ UNCHANGED <<guestVars, burnVars, max_files, max_total_size_bytes, clockVars, serverVars, uploads>>

\* A room with guests present and files uploaded, and possibly an upload
\* that was initiated and abandoned.  rooms.author_token holds the token
\* (a room from before the secrets moved to room_secrets) or nothing (a
\* room POST /api/rooms created: it writes the token to room_secrets only).
InitDelete ==
    /\ roomRow = TRUE
    /\ max_concurrent_users = UNLIMITED
    /\ room_presence = Devices
    /\ room_user_index = [d \in Devices |-> d]
    /\ room_user_counter = MaxDevices
    /\ access_logs = [k \in LogKeys |-> IF k[1] = "room_access" THEN 1 ELSE 0]
    /\ recentLogs = {}
    /\ jreq = EmptyBag
    /\ mode \in {"burn", "normal"}
    /\ file_triggers \in BOOLEAN
    /\ status = "active"
    /\ \E k \in 1..MaxFiles :
          /\ files = [f \in Files |-> IF f <= k THEN LiveFile ELSE NoFile]
          /\ remaining_files = RemainingAfterUploads(k)
          /\ \E abandoned \in BOOLEAN :
                uploads = [f \in Files |-> IF f <= k THEN "completed"
                                           ELSE IF abandoned THEN "open" ELSE "none"]
    /\ download_in_progress = FALSE
    /\ dreq = EmptyBag
    /\ burnTimers = EmptyBag
    /\ countdowns = EmptyBag
    /\ downloading = {}
    /\ burnsScheduled = [f \in Files |-> 0]
    /\ burnDecrements = [f \in Files |-> 0]
    /\ max_files = MaxFiles
    /\ max_total_size_bytes = MaxFiles * MaxFileSize
    /\ areq = EmptyBag
    /\ stale_presence = {}
    /\ is_permanent = FALSE
    /\ expired \in BOOLEAN
    /\ old_uploads \in SUBSET {f \in Files : uploads[f] = "open"}
    /\ rooms_author_token \in {author_token, ""}
    /\ InitProcess

NextDelete ==
    \/ \E d \in Devices : DlStartAuthorize(d)
    \/ \E h \in Handlers(dreq) : DlStartLock(h)
    \/ \E token \in Tokens : DelRoomSelect(token)
    \/ \E h \in Handlers(areq) : DelRoomListFiles(h)
    \/ \E h \in Handlers(areq) : DelRoomDeleteBlob(h)
    \/ \E h \in Handlers(areq) : DelRoomDeleteRow(h)
    \/ \E token \in Tokens, f \in Files : DelFileSelect(token, f)
    \/ \E h \in Handlers(areq) : DelFileDeleteBlob(h)
    \/ \E h \in Handlers(areq) : DelFileDeleteRow(h)
    \/ \E h \in Handlers(areq), ok \in BOOLEAN : DelFileDecrement(h, ok)
    \/ \E h \in Handlers(areq) : DelFileFallbackRead(h)
    \/ \E h \in Handlers(areq) : DelFileFallbackWrite(h)
    \/ \E stale \in SUBSET Files : ReaperListUploads(stale, TRUE)
    \/ \E h \in Handlers(areq) : ReaperAbortStale(h, TRUE)
    \/ \E h \in Handlers(areq) : ReaperSelectExpired(h, TRUE, FALSE)
    \/ \E h \in Handlers(areq) : ReaperListFiles(h, TRUE)
    \/ \E h \in Handlers(areq) : ReaperDeleteBlob(h, TRUE)
    \/ \E h \in Handlers(areq) : ReaperDeleteRow(h, TRUE)
    \/ \E h \in Handlers(areq) : ReaperDone(h)
    \/ \E h \in Handlers(areq) : MpRespond(h)

\* The routes and the job that delete a room's blobs and rows, next to
\* downloads that take the room's download lock.
SpecDelete == InitDelete /\ [][NextDelete]_vars

\* A room, permanent or not, with files uploaded and possibly an abandoned
\* upload, whose expires_at is still ahead.
InitReaper ==
    /\ roomRow = TRUE
    /\ max_concurrent_users = UNLIMITED
    /\ room_presence = Devices
    /\ room_user_index = [d \in Devices |-> d]
    /\ room_user_counter = MaxDevices
    /\ access_logs = [k \in LogKeys |-> IF k[1] = "room_access" THEN 1 ELSE 0]
    /\ recentLogs = {}
    /\ jreq = EmptyBag
    /\ mode \in {"burn", "normal"}
    /\ file_triggers \in BOOLEAN
    /\ status = "active"
    /\ \E k \in 0..MaxFiles :
          /\ files = [f \in Files |-> IF f <= k THEN LiveFile ELSE NoFile]
          /\ remaining_files = RemainingAfterUploads(k)
          /\ \E abandoned \in SUBSET (Files \ 1..k) :
                uploads = [f \in Files |-> IF f <= k THEN "completed"
                                           ELSE IF f \in abandoned THEN "open" ELSE "none"]
    /\ download_in_progress = FALSE
    /\ dreq = EmptyBag
    /\ burnTimers = EmptyBag
    /\ countdowns = EmptyBag
    /\ downloading = {}
    /\ burnsScheduled = [f \in Files |-> 0]
    /\ burnDecrements = [f \in Files |-> 0]
    /\ max_files = MaxFiles
    /\ max_total_size_bytes = MaxFiles * MaxFileSize
    /\ areq = EmptyBag
    /\ stale_presence = {}
    /\ is_permanent \in BOOLEAN
    /\ expired = FALSE
    /\ old_uploads \in SUBSET {f \in Files : uploads[f] = "open"}
    /\ InitServer

NextReaper ==
    \/ RoomExpires
    \/ \E stale \in SUBSET Files, ok \in BOOLEAN : ReaperListUploads(stale, ok)
    \/ \E h \in Handlers(areq), ok \in BOOLEAN : ReaperAbortStale(h, ok)
    \/ \E h \in Handlers(areq), ok, others \in BOOLEAN : ReaperSelectExpired(h, ok, others)
    \/ \E h \in Handlers(areq), ok \in BOOLEAN : ReaperOtherRoom(h, ok)
    \/ \E h \in Handlers(areq), ok \in BOOLEAN : ReaperListFiles(h, ok)
    \/ \E h \in Handlers(areq), ok \in BOOLEAN : ReaperDeleteBlob(h, ok)
    \/ \E h \in Handlers(areq), ok \in BOOLEAN : ReaperDeleteRow(h, ok)
    \/ \E h \in Handlers(areq) : ReaperDone(h)

\* The hourly job on a room that may be permanent and may expire, with
\* every call of the job allowed to fail.
SpecReaper == InitReaper /\ [][NextReaper]_vars

\* ======================================================= POST /api/rooms
Rooms == 1..MaxRooms

\* The id the store gives the next rooms row: one no row, handler or
\* response has had.
FreshRooms ==
    {r \in Rooms : /\ r \notin rooms /\ responses[r] = 0
                   /\ \A h \in Handlers(creq) : h.room # r}

CreateHandler(pc, r, code) == [pc |-> pc, room |-> r, code |-> code]

roomVars == <<guestVars, burnVars, uploadVars, clockVars, rooms_author_token>>

\* POST /api/rooms with valid fields up to the answer to the insert into
\* rooms: the row is there (ok), or roomError and 500.
CreateRoomInsert(ok) ==
    /\ BagCardinality(creq) < MaxCreateSlots
    /\ FreshRooms # {}
    /\ LET r == CHOOSE x \in FreshRooms : \A y \in FreshRooms : x <= y
       IN IF ok
            THEN /\ rooms' = rooms \cup {r}
                 /\ creq' = creq (+) SetToBag({CreateHandler("insertSecret", r, 0)})
            ELSE /\ creq' = creq (+) SetToBag({CreateHandler("respond", 0, 500)})
                 /\ UNCHANGED rooms
    /\ UNCHANGED <<room_secrets, responses, roomVars, inviteVars, overloadVars>>

\* The insert into room_secrets: the row is there and the answer is
\* { id, author_token }, or secretError and the room row is to be deleted.
CreateRoomSecret(h, ok) ==
    /\ h.pc = "insertSecret"
    /\ IF ok /\ h.room \in rooms
         THEN /\ room_secrets' = room_secrets \cup {h.room}
              /\ creq' = Replace(creq, h, [h EXCEPT !.pc = "respond", !.code = 200])
         ELSE /\ creq' = Replace(creq, h, [h EXCEPT !.pc = "deleteRoom"])
              /\ UNCHANGED room_secrets
    /\ UNCHANGED <<rooms, responses, roomVars, inviteVars, overloadVars>>

\* `await supabase.from('rooms').delete().eq('id', room.id)`, whose result
\* the handler does not read, then 500.
CreateRoomDelete(h, ok) ==
    /\ h.pc = "deleteRoom"
    /\ rooms' = IF ok THEN rooms \ {h.room} ELSE rooms
    /\ creq' = Replace(creq, h, [h EXCEPT !.pc = "respond", !.code = 500])
    /\ UNCHANGED <<room_secrets, responses, roomVars, inviteVars, overloadVars>>

\* The response is sent.
CreateRoomRespond(h) ==
    /\ h.pc = "respond"
    /\ creq' = Remove(creq, h)
    /\ responses' = IF h.room # 0 THEN [responses EXCEPT ![h.room] = h.code] ELSE responses
    /\ UNCHANGED <<rooms, room_secrets, roomVars, inviteVars, overloadVars>>

NextCreate ==
    \/ \E ok \in BOOLEAN : CreateRoomInsert(ok)
    \/ \E h \in Handlers(creq), ok \in BOOLEAN : CreateRoomSecret(h, ok)
    \/ \E h \in Handlers(creq), ok \in BOOLEAN : CreateRoomDelete(h, ok)
    \/ \E h \in Handlers(creq) : CreateRoomRespond(h)

\* Room creation; the room the other routes work on is left alone.
SpecCreate == InitUpload /\ [][NextCreate]_vars

\* ====================================================== POST /api/invite
\* The room invites are sent for: a normal room nobody has joined yet.
InitInvite ==
    /\ InitUpload
    /\ mode = "normal" /\ file_triggers /\ max_files = MaxFiles

IP_LIMIT == 3
ROOM_LIMIT == 5
RECIPIENT_LIMIT == 3
IP_ROOM_LIMIT == 3

IPs == 1..MaxIPs
Recipients == 1..MaxRecipients

\* A window counter.  live: the entry is in the Map and now <= resetTime.
\* recent (ipRateLimit only): lastAttempt is set and less than
\* MIN_INTERVAL_MS ago.
NewWindow == [count |-> 0, live |-> TRUE]
NewIpWindow == [count |-> 0, live |-> TRUE, recent |-> FALSE]

\* getWindowCounter(map, key, windowMs, withLastAttempt): the entry when
\* now <= resetTime, otherwise a replacement with count 0 that is set in
\* the Map.
getWindowCounter(existing, replacement) == IF existing.live THEN existing ELSE replacement

\* `data.count += 1` on the object the handler holds.
ConsumeMutant(data) == data
Consume(data) == [data EXCEPT !.count = @ + 1]

\* A handler in flight.  shareLink: sanitizeShareLink accepts the link sent
\* (or none was sent).  detached: the counters among ipData, roomData,
\* recipientData, ipRoomData that another request has replaced in their Map
\* or that have expired since the handler obtained them.
InviteHandler(pc, ip, e, shareLink, code) ==
    [pc |-> pc, ip |-> ip, email |-> e, shareLink |-> shareLink, code |-> code,
     detached |-> {}]

\* The handlers suspended in their room select lose the counters this
\* request replaces.
Detach(bag, ip, e, replaced) ==
    LET lost(h) == {c \in replaced : \/ c = "room"
                                     \/ c \in {"ip", "ipRoom"} /\ h.ip = ip
                                     \/ c = "recipient" /\ h.email = e}
        moved(h) == IF h.pc = "roomSelect"
                      THEN [h EXCEPT !.detached = @ \cup lost(h)] ELSE h
        sum(g) == LET from == {h \in Handlers(bag) : moved(h) = g}
                  IN BagCardinality([h \in from |-> bag[h]])
    IN [g \in {moved(h) : h \in Handlers(bag)} |-> sum(g)]

\* POST /api/invite with well-formed email and roomId, up to the await of
\* the room select: the four counters are obtained and tested in turn, each
\* one only if the tests before it passed; a failed test answers 429.
InviteGate(ip, e, shareLink) ==
    /\ BagCardinality(ireq) < MaxInviteSlots
    /\ LET ipData == getWindowCounter(ipRateLimit[ip], NewIpWindow)
           ipPasses == ~ipData.recent /\ ipData.count < IP_LIMIT
           roomData == getWindowCounter(roomInviteCount, NewWindow)
           roomPasses == ipPasses /\ roomData.count < ROOM_LIMIT
           recipientData == getWindowCounter(recipientRateLimit[e], NewWindow)
           recipientPasses == roomPasses /\ recipientData.count < RECIPIENT_LIMIT
           ipRoomData == getWindowCounter(ipRoomRateLimit[ip], NewWindow)
           passes == recipientPasses /\ ipRoomData.count < IP_ROOM_LIMIT
           replaced == (IF ~ipRateLimit[ip].live THEN {"ip"} ELSE {})
                         \cup (IF ipPasses /\ ~roomInviteCount.live THEN {"room"} ELSE {})
                         \cup (IF roomPasses /\ ~recipientRateLimit[e].live
                                 THEN {"recipient"} ELSE {})
                         \cup (IF recipientPasses /\ ~ipRoomRateLimit[ip].live
                                 THEN {"ipRoom"} ELSE {})
       IN /\ ipRateLimit' = [ipRateLimit EXCEPT ![ip] = ipData]
          /\ roomInviteCount' = IF ipPasses THEN roomData ELSE roomInviteCount
          /\ recipientRateLimit' = IF roomPasses
                                     THEN [recipientRateLimit EXCEPT ![e] = recipientData]
                                     ELSE recipientRateLimit
          /\ ipRoomRateLimit' = IF recipientPasses
                                  THEN [ipRoomRateLimit EXCEPT ![ip] = ipRoomData]
                                  ELSE ipRoomRateLimit
          /\ mailed' = IF "recipient" \in replaced THEN [mailed EXCEPT ![e] = 0] ELSE mailed
          /\ ireq' = Detach(ireq, ip, e, replaced)
                       (+) SetToBag({IF passes
                                       THEN InviteHandler("roomSelect", ip, e, shareLink, 0)
                                       ELSE InviteHandler("respond", ip, e, shareLink, 429)})
    /\ UNCHANGED <<roomVars, createVars, overloadVars, windowsElapsed>>

\* The room select is answered: 404 without the row, 400 for a share link
\* that sanitizeShareLink rejects; otherwise the four counters the handler
\* holds are incremented, lastAttempt is set and the mail is handed to
\* resend.emails.send.
InviteRoomSelect(h) ==
    /\ h.pc = "roomSelect"
    /\ IF roomRow /\ h.shareLink
         THEN /\ ipRateLimit' =
                    IF "ip" \in h.detached THEN ipRateLimit
                    ELSE [ipRateLimit EXCEPT ![h.ip] = [Consume(@) EXCEPT !.recent = TRUE]]
              /\ roomInviteCount' = IF "room" \in h.detached THEN roomInviteCount
                                    ELSE Consume(roomInviteCount)
              /\ recipientRateLimit' =
                    IF "recipient" \in h.detached THEN recipientRateLimit
                    ELSE [recipientRateLimit EXCEPT ![h.email] = Consume(@)]
              /\ ipRoomRateLimit' =
                    IF "ipRoom" \in h.detached THEN ipRoomRateLimit
                    ELSE [ipRoomRateLimit EXCEPT ![h.ip] = Consume(@)]
              /\ mailed' = [mailed EXCEPT ![h.email] = @ + 1]
              /\ ireq' = Replace(ireq, h, [h EXCEPT !.pc = "send"])
         ELSE /\ ireq' = Replace(ireq, h, [h EXCEPT !.pc = "respond",
                                                    !.code = IF roomRow THEN 400 ELSE 404])
              /\ UNCHANGED <<ipRateLimit, roomInviteCount, recipientRateLimit,
                             ipRoomRateLimit, mailed>>
    /\ UNCHANGED <<roomVars, createVars, overloadVars, windowsElapsed>>

\* resend.emails.send is answered: emailError (or an exception) gives 500,
\* otherwise { success: true }.
InviteSend(h, ok) ==
    /\ h.pc = "send"
    /\ ireq' = Replace(ireq, h, [h EXCEPT !.pc = "respond", !.code = IF ok THEN 200 ELSE 500])
    /\ UNCHANGED <<ipRateLimit, roomInviteCount, recipientRateLimit, ipRoomRateLimit, mailed>>
    /\ UNCHANGED <<roomVars, createVars, overloadVars, windowsElapsed>>

\* The response is sent.
InviteRespond(h) ==
    /\ h.pc = "respond"
    /\ ireq' = Remove(ireq, h)
    /\ UNCHANGED <<ipRateLimit, roomInviteCount, recipientRateLimit, ipRoomRateLimit, mailed>>
    /\ UNCHANGED <<roomVars, createVars, overloadVars, windowsElapsed>>

\* Time passes: MIN_INTERVAL_MS since the IP's lastAttempt.
MinIntervalElapses(ip) ==
    /\ ipRateLimit[ip].recent
    /\ ipRateLimit' = [ipRateLimit EXCEPT ![ip].recent = FALSE]
    /\ UNCHANGED <<roomInviteCount, recipientRateLimit, ipRoomRateLimit, ireq, mailed>>
    /\ UNCHANGED <<roomVars, createVars, overloadVars, windowsElapsed>>

\* Time passes: now > resetTime for one counter.  Nothing reads the entry
\* again: the next getWindowCounter replaces it (the cleanup timer may drop
\* it before), so it is kept as no entry and the handlers that hold it
\* count into an object no Map has.
NoWindow == [count |-> 0, live |-> FALSE]
NoIpWindow == [count |-> 0, live |-> FALSE, recent |-> FALSE]

InviteWindowElapses(c, ip, e) ==
    /\ windowsElapsed < MaxElapses
    /\ windowsElapsed' = windowsElapsed + 1
    /\ CASE c = "ip" ->
              /\ ipRateLimit[ip].live
              /\ ipRateLimit' = [ipRateLimit EXCEPT ![ip] = NoIpWindow]
              /\ UNCHANGED <<roomInviteCount, recipientRateLimit, ipRoomRateLimit, mailed>>
         [] c = "room" ->
              /\ roomInviteCount.live
              /\ roomInviteCount' = NoWindow
              /\ UNCHANGED <<ipRateLimit, recipientRateLimit, ipRoomRateLimit, mailed>>
         [] c = "recipient" ->
              /\ recipientRateLimit[e].live
              /\ recipientRateLimit' = [recipientRateLimit EXCEPT ![e] = NoWindow]
              /\ mailed' = [mailed EXCEPT ![e] = 0]
              /\ UNCHANGED <<ipRateLimit, roomInviteCount, ipRoomRateLimit>>
         [] c = "ipRoom" ->
              /\ ipRoomRateLimit[ip].live
              /\ ipRoomRateLimit' = [ipRoomRateLimit EXCEPT ![ip] = NoWindow]
              /\ UNCHANGED <<ipRateLimit, roomInviteCount, recipientRateLimit, mailed>>
    /\ ireq' = Detach(ireq, ip, e, {c})
    /\ UNCHANGED <<roomVars, createVars, overloadVars>>

NextInvite ==
    \/ \E ip \in IPs, e \in Recipients, shareLink \in BOOLEAN : InviteGate(ip, e, shareLink)
    \/ \E h \in Handlers(ireq) : InviteRoomSelect(h)
    \/ \E h \in Handlers(ireq), ok \in BOOLEAN : InviteSend(h, ok)
    \/ \E h \in Handlers(ireq) : InviteRespond(h)
    \/ \E ip \in IPs : MinIntervalElapses(ip)
    \/ \E c \in {"ip", "room", "recipient", "ipRoom"}, ip \in IPs, e \in Recipients :
          InviteWindowElapses(c, ip, e)
    \/ RoomRowDeleted

\* Invites for one room from several client IPs.
SpecInvite == InitInvite /\ [][NextInvite]_vars

\* ================================================ server.js overload guard
\* Paths are kept as their segments: /api/room-access/activity is
\* <<"api", "room-access", "activity">>.
overloadShedRoutes ==
    {<<"api", "upload">>, <<"api", "presigned-upload">>, <<"api", "multipart-upload">>,
     <<"api", "invite">>, <<"api", "analytics-admin">>, <<"api", "rooms">>,
     <<"api", "room-access", "activity">>}

\* The requests sent: one path under every shed prefix, and the presence
\* heartbeat, the health check, a join and a download.
Paths ==
    {<<"api", "upload">>, <<"api", "presigned-upload">>,
     <<"api", "multipart-upload", "initiate">>, <<"api", "invite">>,
     <<"api", "analytics-admin", "summary">>, <<"api", "rooms">>,
     <<"api", "room-access", "activity">>,
     <<"api", "room-access", "presence">>, <<"health">>,
     <<"api", "room-access">>, <<"api", "download">>}

Reasons == {"rss", "free_mem", "load_per_cpu"}

startsWith(path, prefix) ==
    /\ Len(prefix) <= Len(path)
    /\ \A i \in 1..Len(prefix) : path[i] = prefix[i]

\* shouldShedRoute(path): the path starts with one of the shed prefixes.
shouldShedRouteMutant(path) == path \in overloadShedRoutes
shouldShedRoute(path) == \E prefix \in overloadShedRoutes : startsWith(path, prefix)

\* sampleOverloadState(): the cached sample while it is younger than the
\* check interval, else a new one.
MustSample == lastOverloadSampleAge >= overloadCheckIntervalMs
sampleOverloadState ==
    IF MustSample THEN [overloaded |-> metrics # {}, reasons |-> metrics]
                  ELSE lastOverloadSample

\* A request passes the overload guard middleware: a path that is not shed
\* goes on without a sample; a shed path is answered 503 with Retry-After
\* when the sample says overloaded, else it goes on (status 0) to its
\* route.
OverloadGuard(path) ==
    /\ IF shouldShedRoute(path)
         THEN /\ lastOverloadSample' = sampleOverloadState
              /\ lastOverloadSampleAge' = IF MustSample THEN 0 ELSE lastOverloadSampleAge
              /\ lastRequest' = IF sampleOverloadState.overloaded
                                  THEN [path |-> path, status |-> 503,
                                        retryAfter |-> overloadRetryAfterSeconds]
                                  ELSE [path |-> path, status |-> 0, retryAfter |-> 0]
         ELSE /\ lastRequest' = [path |-> path, status |-> 0, retryAfter |-> 0]
              /\ UNCHANGED <<lastOverloadSample, lastOverloadSampleAge>>
    /\ UNCHANGED <<metrics, roomVars, createVars, inviteVars>>

\* A second passes.
OverloadTick ==
    /\ lastOverloadSampleAge < overloadCheckIntervalMs
    /\ lastOverloadSampleAge' = lastOverloadSampleAge + 1
    /\ UNCHANGED <<lastOverloadSample, metrics, lastRequest, roomVars, createVars, inviteVars>>

\* The process or the host crosses a ceiling, in either direction: rss,
\* free memory or load per CPU.
MetricsChange(reason) ==
    /\ metrics' = IF reason \in metrics THEN metrics \ {reason} ELSE metrics \cup {reason}
    /\ UNCHANGED <<lastOverloadSample, lastOverloadSampleAge, lastRequest,
                   roomVars, createVars, inviteVars>>

NextOverload ==
    \/ \E path \in Paths : OverloadGuard(path)
    \/ OverloadTick
    \/ \E reason \in Reasons : MetricsChange(reason)

\* Requests meeting the overload guard while the load changes.
SpecOverload == InitInvite /\ [][NextOverload]_vars

\* ================================================================ claims
\* Handlers whose assign_user_number call has returned: guestNumber is what
\* the response { success, guestNumber } will carry.
Answered(bag) == {h \in Handlers(bag) : h.pc \in {"logCheck", "logInsert"}}
Assigned == {d \in Devices : room_user_index[d] # 0}

\* Files whose row is there and not marked destroyed.
LiveFiles == {f \in Files : files[f].row /\ files[f].file_status # "destroyed"}

\* C1: the download_count of a burn or one-time file never exceeds 1,
\* whatever the interleaving of GET, /start and /end requests, repeated
\* /end calls with success = true included.
C1_BurnFileDownloadedOnce ==
    \A f \in Files : (files[f].row /\ IsBurnFile(f)) => files[f].download_count <= 1

\* C2: no step takes a terminating room to destroyed, or deletes the room
\* row, in a state where download_in_progress = true, a /start processed
\* between the countdown's read and its write included.
C2_NoDestroyWhileLocked ==
    [][/\ (roomRow /\ status = "terminating" /\ status' = "destroyed")
             => ~download_in_progress
       /\ (roomRow /\ ~roomRow') => ~download_in_progress
      ]_vars

\* C3: while some device has a live download (its /start has locked the
\* room and it has not called /end since) the room is not destroyed, also
\* when another device that started in parallel calls /end first.
C3_LiveDownloadKeepsRoom ==
    downloading # {} => (roomRow /\ status # "destroyed")

\* C4: for a room with capacity c < 999 the number of non-author devices
\* counted as active guests (its room_presence rows) is at most c after
\* every capacity-gate decision, whatever the interleaving of concurrent
\* joins and heartbeats of distinct devices.
C4_CapacityNeverExceeded ==
    (roomRow /\ max_concurrent_users < UNLIMITED)
        => countActiveGuests(0) <= max_concurrent_users

\* C5: two concurrent first-join requests of one (room, device) both receive
\* the same guest number, the one recorded for the device, and neither
\* receives an empty number.
C5_ConcurrentFirstJoinSameNumber ==
    roomRow => \A h \in Answered(jreq) :
                  h.guestNumber # NULL /\ h.guestNumber = room_user_index[h.device]

\* C6: when N distinct devices have joined, in any interleaving, the guest
\* numbers assigned are exactly 1..N (none twice, none skipped), and every
\* number handed to a caller is the one recorded for its device.
C6_GuestNumbersDense ==
    roomRow =>
        /\ {room_user_index[d] : d \in Assigned} = 1..Cardinality(Assigned)
        /\ room_user_counter = Cardinality(Assigned)
        /\ \A h \in Answered(jreq) :
              h.guestNumber # NULL => h.guestNumber = room_user_index[h.device]

\* Two devices were given fresh numbers by calls that were in flight together.
C6_Witness ==
    /\ roomRow
    /\ Assigned = Devices
    /\ \E h1, h2 \in Answered(jreq) :
          /\ h1.device # h2.device
          /\ h1.selected = 0 /\ h2.selected = 0
          /\ h1.guestNumber # NULL /\ h2.guestNumber # NULL

\* C7: while the room exists, an entry of the guest index never changes, a
\* call whose lookup finds the entry returns that number, and the per-room
\* counter moves only when a device without an entry is given one.
C7_AssignIdempotent ==
    [][roomRow' =>
         /\ \A d \in Assigned : room_user_index'[d] = room_user_index[d]
         /\ room_user_counter' # room_user_counter
               => \E d \in Devices \ Assigned : room_user_index'[d] = room_user_counter'
         /\ \A h \in Answered(jreq') :
               h.selected # 0 => /\ h.guestNumber = h.selected
                                 /\ h.guestNumber = room_user_index'[h.device]
      ]_vars

\* A call for a device that already had a number has returned.
C7_Witness ==
    /\ roomRow
    /\ room_user_counter = MaxDevices
    /\ \E h \in Answered(jreq) : h.selected # 0 /\ h.guestNumber = h.selected

\* C8: in a burn room remaining_files is never negative and, once files
\* have been uploaded, is 0 only when no file of the room is left, across
\* burn destruction after /end and /bulk-mark.
C8_RemainingFilesMatchesFiles ==
    (mode = "burn" /\ roomRow)
        => /\ remaining_files >= 0
           /\ remaining_files = 0 => LiveFiles = {}

\* C9: burn destruction is idempotent: however often /end is repeated with
\* success = true for one burn file, its destructions decrement the room's
\* remaining_files at most once.
C9_BurnDecrementsOncePerFile ==
    \A f \in Files : burnDecrements[f] <= 1

\* C10: in a burn room, once every file has had its one successful /end and
\* the destructions these started have run to their end (overlapping or
\* not), remaining_files is 0 and the room has left status active.
C10_AllBurnedMeansTerminating ==
    (/\ mode = "burn" /\ roomRow
     /\ \A f \in Files : ~files[f].row /\ burnsScheduled[f] <= 1
     /\ PendingEnds = 0 /\ burnTimers = EmptyBag)
        => (remaining_files = 0 /\ status # "active")

\* C11: a countdown that fires on a terminating room with the download
\* lock set runs its check again 30 s later: as long as the room is
\* terminating a countdown is pending, so that the room is destroyed once
\* the lock stays clear.
C11_TerminatingRoomHasCountdown ==
    (roomRow /\ status = "terminating") => countdowns # EmptyBag

\* C12: the step of /bulk-mark (as every step) that makes a burn room
\* terminating starts the lifecycle as the single-file path does: it
\* schedules the countdown that will destroy and remove the room.
C12_TerminatingSchedulesCountdown ==
    [][(roomRow /\ status # "terminating" /\ status' = "terminating")
          => BagCardinality(countdowns') > BagCardinality(countdowns)]_vars

C14_DestroyedIsTerminal ==
    [][(roomRow /\ status = "destroyed" /\ roomRow')
          => /\ status' = status
             /\ remaining_files' = remaining_files
             /\ download_in_progress' = download_in_progress
             /\ \A f \in Files :
                   files'[f].row => /\ files[f].row
                                    /\ files'[f].download_count = files[f].download_count
                                    /\ files'[f].file_status = files[f].file_status]_vars


CompletesCounting ==
    {h \in Handlers(areq) : h.op = "complete"
                              /\ h.pc \in {"increment", "fallbackRead", "fallbackWrite"}}

\* C17: k successful Completes leave remaining_files exactly k higher:
\* on a room that started empty, once no Complete is in the middle of its
\* increment, remaining_files is the number of file rows written.
C17_CompletesCountedOnce ==
    (roomRow /\ CompletesCounting = {}) => remaining_files = file_count

\* C18: a Complete whose finalize failed has tried to abort the upload and
\* answers 5xx (it writes no row and leaves remaining_files alone).
C18_FailedFinalizeAborts ==
    \A h \in Handlers(areq) :
        (h.op = "complete" /\ h.finalized = "failed")
           => (h.pc = "respond" /\ h.code >= 500 /\ h.abortTried)

\* C19: Abort is idempotent: an authorized Abort answers success, also
\* for an upload handle the store does not know.
C19_AbortAlwaysSucceeds ==
    \A h \in Handlers(areq) :
        (h.op = "abort" /\ h.pc = "respond" /\ h.abortTried) => h.code = 200

\* C20: every multipart phase requires the author token: a request with
\* another token is answered 403 before any call to the object store and
\* any metadata write.
C20_WrongTokenTouchesNothing ==
    \A h \in Handlers(areq) :
        h.token # author_token => (h.pc = "respond" /\ h.code = 403 /\ ~h.touched)

\* Each phase has refused a wrong token while uploads were open.
C20_Witness ==
    /\ \E f \in Files : uploads[f] = "open"
    /\ \E h \in Handlers(areq) : h.token = "guess" /\ h.op = "complete" /\ h.code = 403
    /\ \E h \in Handlers(areq) : h.token = "guess" /\ h.op = "abort" /\ h.code = 403

\* C15: every path that deletes blobs or the room row consults the
\* download lock: a delete-room, delete-file or reaper run that started
\* while download_in_progress was set (and it stays set until the row is
\* gone) has deleted neither a blob nor a row.
C15_DeletesRespectLock ==
    \A h \in Handlers(areq) :
        (h.op \in {"deleteRoom", "deleteFile", "reaper"} /\ h.locked) => ~h.touched

\* Guests other than d whose presence row is inside the active window.
ActiveOthers(d) == Cardinality((room_presence \ stale_presence) \ {d})

\* The gate answers handler h with 403 isFull in this step.
GateRejected(h) == h.pc = "count" /\ jreq' = Remove(jreq, h)

\* C21: a presence row older than the active window does not count toward
\* capacity: a join or heartbeat is rejected as full only when the guests
\* other than the caller that were seen inside the window fill the room.
C21_StaleRowsDoNotCount ==
    [][\A h \in Handlers(jreq) :
          GateRejected(h) => ActiveOthers(h.device) >= max_concurrent_users]_vars

\* C22: a guest is not counted against itself: its rejoin or heartbeat is
\* rejected as full only when the presence rows of other devices fill the
\* room.
C22_SelfNotCounted ==
    [][\A h \in Handlers(jreq) :
          GateRejected(h) =>
             Cardinality(room_presence \ {h.device}) >= max_concurrent_users]_vars

\* The room is exactly full with device d included and d's rejoin or
\* heartbeat has passed the gate.
C22_Witness ==
    /\ max_concurrent_users = SmallCapacity
    /\ Cardinality(room_presence) = max_concurrent_users
    /\ \E h \in Handlers(jreq) : h.pc = "upsert" /\ h.device \in room_presence

\* C23: concurrent joins of one (room, device) leave exactly one
\* room_access log row for the pair (and one presence row, a device being
\* in room_presence or not): no pair ever has a second room_access row.
C23_OneJoinLogPerDevice ==
    \A d \in Devices : access_logs[<<"room_access", d>>] <= 1

\* C25: any number of successful /download/end calls of one device,
\* sequential or concurrent, leave exactly one file_download log row for
\* the (room, device): no pair ever has a second file_download row.
C25_OneDownloadLogPerDevice ==
    \A d \in Devices : access_logs[<<"file_download", d>>] <= 1

\* A step changes the download_count of a file row that stays.
CountChanged(f) ==
    /\ files[f].row /\ files'[f].row
    /\ files'[f].download_count # files[f].download_count

\* The step is the count update of a /download/end { success: true } for f.
EndCounts(f) ==
    \E h \in Handlers(dreq) : h.op = "end" /\ h.success /\ h.pc = "countUpdate" /\ h.file = f

\* The step is the update of /bulk-mark's loop for f.
BulkMarks(f) ==
    \E h \in Handlers(dreq) : h.op = "bulk" /\ h.pc = "mark" /\ CurrentFile(h) = f

\* A /download/end without success answers: the lock is cleared and no
\* file, blob, counter or log changes.
EndFailedOnlyUnlocks ==
    \A h \in Handlers(dreq) :
        h.op = "end" /\ ~h.success /\ dreq' = Remove(dreq, h)
            => /\ ~download_in_progress'
               /\ UNCHANGED <<files, status, remaining_files, access_logs>>

\* C24 (as stated): download_count changes only in /download/end with
\* success = true; GET, /start and every other route leave it unchanged,
\* and /end with success = false only clears the lock.
C24_CountChangesOnlyInEnd ==
    [][(\A f \in Files : CountChanged(f) => EndCounts(f)) /\ EndFailedOnlyUnlocks]_vars

\* C24 (amended): download_count changes only in /download/end with
\* success = true and in /download/bulk-mark; GET and /start leave it
\* unchanged, and /end with success = false only clears the lock.
C24_CountChangesInEndOrBulkMark ==
    [][(\A f \in Files : CountChanged(f) => EndCounts(f) \/ BulkMarks(f))
       /\ EndFailedOnlyUnlocks]_vars

\* A successful /end has just written the count it read plus one.
C24_Witness ==
    \E h \in Handlers(dreq) :
        /\ h.op = "end" /\ h.success /\ h.pc = "logCheck"
        /\ files[h.file].row /\ files[h.file].download_count = h.count + 1

\* The GET handlers whose select of the file and room ran in this step.
GetsSelected == {h \in Handlers(dreq') : h.op = "get" /\ h.pc = "authorize"} \ Handlers(dreq)

\* C26: a GET for a burn or one-time file whose select runs while another
\* device is between its /download/start and its /download/end is refused
\* (409, or 410 once the file is counted) and gets no signed URL.
C26_GetDuringDownloadRefused ==
    [][\A h \in GetsSelected :
          IsBurnFile(h.file) /\ downloading \ {h.device} # {} => GetRefuses(h)]_vars

\* Burn or one-time files for which a /download/end { success: true } has
\* been processed to its end.
EndedFiles == {f \in Files : IsBurnFile(f) /\ burnsScheduled[f] > 0}

C28_UnauthorizedGets403 ==
    \A d \in Devices, f \in Files :
        files[f].row /\ roomRow /\ ~authorizeRoomAccess(FALSE, d) => GetStatus(d, f) = 403

\* A step removes the room row, a file row or a blob.
RowsOrBlobsRemoved ==
    \/ roomRow /\ ~roomRow'
    \/ \E f \in Files : \/ files[f].row /\ ~files'[f].row
                        \/ files[f].blob /\ ~files'[f].blob

\* C29: the reaper removes the room row, a file row or a blob only of a
\* room that is expired and not permanent.
C29_ReaperSparesPermanentAndUnexpired ==
    [][RowsOrBlobsRemoved => expired /\ ~is_permanent]_vars

\* A run has ended on a permanent room long expired, which is untouched.
C29_Witness ==
    /\ is_permanent /\ expired /\ roomRow
    /\ \A f \in Files : files[f].row => files[f].blob
    /\ \E h \in ReaperRuns : h.pc = "done"

\* C30: when a run ends, a non-permanent room that was expired at its
\* start and whose own select, file listing and row delete did not fail has
\* no room row and no file rows left, whatever else failed in the run (the
\* listing or an abort of stale uploads, a blob delete, another room).
C30_FailuresSkipped ==
    \A h \in ReaperRuns :
        h.pc = "done" /\ h.due /\ ~h.failed
            => ~roomRow /\ \A f \in Files : ~files[f].row

\* A run in which something failed has ended with the due room removed.
C30_Witness ==
    \E h \in ReaperRuns :
        /\ h.pc = "done" /\ h.due /\ ~h.failed /\ h.skipped
        /\ ~roomRow

\* A step aborts the multipart upload of f in the object store.
UploadAborted(f) == uploads[f] = "open" /\ uploads'[f] = "aborted"

DeleteRoomHandlers == {h \in Handlers(areq) : h.op = "deleteRoom"}

\* C33: a DELETE /delete-room request that carries the room's author token
\* is not refused as unauthorized (403).
C33_AuthorMayDeleteRoom ==
    \A h \in DeleteRoomHandlers :
        h.token = author_token => ~(h.pc = "respond" /\ h.code = 403)

\* The download handlers a step takes out of, and puts into, the bag.
Left == {h \in Handlers(dreq) : CopiesIn(h, dreq') < CopiesIn(h, dreq)}
Gained == {g \in Handlers(dreq') : CopiesIn(g, dreq') > CopiesIn(g, dreq)}

\* The /download/end handlers that call logAccess in this step: the rpc
\* assign_user_number has answered and the handler does not go on to the
\* rpc's commit.
LogCallers ==
    {h \in Left : /\ h.op = "end" /\ h.pc \in {"assignSelect", "assignCommit"}
                  /\ \A g \in Gained : g.pc # "assignCommit"}

BlobDeletesAnswered ==
    {t \in Handlers(burnTimers) :
        t.pc = "deleteBlob" /\ CopiesIn(t, burnTimers') < CopiesIn(t, burnTimers)}

\* C37: whatever the answer to the blob deletion of a burn destruction, the
\* callback goes on to mark the file destroyed (and from there to the row
\* delete and, in burn mode, the remaining_files decrement).
C37_BlobFailureSkipped ==
    [][\A t \in BlobDeletesAnswered :
          CopiesIn([t EXCEPT !.pc = "markDestroyed"], burnTimers')
             > CopiesIn([t EXCEPT !.pc = "markDestroyed"], burnTimers)]_vars

\* C38: while the room's status is terminating or destroyed no files row is
\* inserted and remaining_files is not raised.
C38_NoFileAddedWhileEnding ==
    [][(roomRow /\ status \in {"terminating", "destroyed"})
          => /\ \A f \in Files : files'[f].row => files[f].row
             /\ remaining_files' <= remaining_files]_vars

\* C39: a download endpoint assigns a guest number only to a device that
\* has a presence row, also when the request carries the author token.
C39_NumbersOnlyForPresentDevices ==
    [][\A d \in Devices :
          room_user_index'[d] # room_user_index[d] => d \in room_presence]_vars

\* C40: once POST /api/rooms has answered for a room, its rooms row exists
\* exactly if its room_secrets row exists, and the request that could not
\* write the secret has left no rooms row and failed.
C40_RoomIffSecret ==
    \A r \in Rooms :
        responses[r] # 0 => /\ (r \in rooms <=> r \in room_secrets)
                            /\ (r \notin room_secrets => responses[r] = 500)

\* C32: in a recipient's window at most RECIPIENT_LIMIT mails for the
\* recipient are handed to the mailer, whatever the client IPs are and
\* also when the requests overlap.
C32_RecipientLimit ==
    \A e \in Recipients : mailed[e] <= RECIPIENT_LIMIT

\* The invite handlers that call resend.emails.send in this step, and those
\* whose send is answered in it.
MailerCalls ==
    {h \in Handlers(ireq) :
        /\ h.pc = "roomSelect"
        /\ CopiesIn([h EXCEPT !.pc = "send"], ireq') > CopiesIn([h EXCEPT !.pc = "send"], ireq)}
SendsAnswered ==
    {h \in Handlers(ireq) : h.pc = "send" /\ CopiesIn(h, ireq') < CopiesIn(h, ireq)}

InviteCounters == <<ipRateLimit, roomInviteCount, recipientRateLimit, ipRoomRateLimit>>

\* C35: the step that hands a mail to the mailer has incremented the four
\* counters the handler holds (those still in their Maps show it); the
\* answer to the send, failure included, leaves the counters as they are;
\* and no other step of an invite request raises a counter.
C35_ConsumedBeforeSend ==
    [][/\ \A h \in MailerCalls :
             /\ "ip" \notin h.detached
                   => ipRateLimit'[h.ip].count = ipRateLimit[h.ip].count + 1
             /\ "room" \notin h.detached
                   => roomInviteCount'.count = roomInviteCount.count + 1
             /\ "recipient" \notin h.detached
                   => recipientRateLimit'[h.email].count = recipientRateLimit[h.email].count + 1
             /\ "ipRoom" \notin h.detached
                   => ipRoomRateLimit'[h.ip].count = ipRoomRateLimit[h.ip].count + 1
       /\ SendsAnswered # {} => UNCHANGED InviteCounters
       /\ MailerCalls = {}
             => /\ \A ip \in IPs : /\ ipRateLimit'[ip].count <= ipRateLimit[ip].count
                                   /\ ipRoomRateLimit'[ip].count <= ipRoomRateLimit[ip].count
                /\ roomInviteCount'.count <= roomInviteCount.count
                /\ \A e \in Recipients :
                      recipientRateLimit'[e].count <= recipientRateLimit[e].count
      ]_vars

\* A send has failed and the four counters of its request stay consumed.
C35_Witness ==
    \E h \in Handlers(ireq) :
        /\ h.pc = "respond" /\ h.code = 500 /\ h.detached = {}
        /\ ipRateLimit[h.ip].count > 0 /\ roomInviteCount.count > 0
        /\ recipientRateLimit[h.email].count > 0 /\ ipRoomRateLimit[h.ip].count > 0

\* Requests for the heavy routes: upload init, presigned upload, invite,
\* admin analytics and activity.
HeavyRequests ==
    {<<"api", "upload">>, <<"api", "multipart-upload", "initiate">>,
     <<"api", "presigned-upload">>, <<"api", "invite">>,
     <<"api", "analytics-admin", "summary">>, <<"api", "room-access", "activity">>}

\* C34: a request for a heavy route that finds the latest sample
\* overloaded is answered 503 with Retry-After and goes no further, the
\* presence heartbeat and the health check are never answered by the guard,
\* and a new sample is taken only when the last one is at least 3 s old.
C34_ShedWhileOverloaded ==
    [][/\ (lastRequest'.path \in HeavyRequests /\ lastOverloadSample'.overloaded)
             => /\ lastRequest'.status = 503
                /\ lastRequest'.retryAfter = overloadRetryAfterSeconds
       /\ lastRequest'.path \in {<<"api", "room-access", "presence">>, <<"health">>}
             => lastRequest'.status = 0
       /\ (lastOverloadSample' # lastOverloadSample
             \/ lastOverloadSampleAge' < lastOverloadSampleAge)
             => lastOverloadSampleAge >= overloadCheckIntervalMs
      ]_vars

\* An upload initiation is shed on a sample that is still cached although
\* the load is back under the ceilings.
C34_Witness ==
    /\ lastRequest.path = <<"api", "multipart-upload", "initiate">>
    /\ lastRequest.status = 503
    /\ lastOverloadSampleAge > 0 /\ metrics = {}

====
